---- MODULE Spec2Model ----
(***************************************************************************)
(* etnoDB record engine: form-to-record mapping, validation, the record    *)
(* store operations, the public search and the request handlers of the     *)
(* acquisition, curation and presentation contexts.                        *)
(*                                                                         *)
(* JavaScript strings are modelled as sequences of one-character strings,  *)
(* so that split / trim / case conversion / pattern matching are computed  *)
(* and not assumed.  JavaScript values of unknown type (request bodies)    *)
(* are tagged records [t |-> type, v |-> value].                           *)
(***************************************************************************)
EXTENDS Integers, Sequences, FiniteSets, TLC

\* ------------------------------------------------------------------------
\* Bounds of the model
\* ------------------------------------------------------------------------
MaxRecords == 2      \* identifiers the store hands out
MaxTime == 2         \* last value of the wall clock

\* ------------------------------------------------------------------------
\* Strings
\* ------------------------------------------------------------------------
LowerAlpha ==
  <<"a","b","c","d","e","f","g","h","i","j","k","l","m","n","o","p","q","r",
    "s","t","u","v","w","x","y","z","á","ã","é","í","ô">>

UpperAlpha ==
  <<"A","B","C","D","E","F","G","H","I","J","K","L","M","N","O","P","Q","R",
    "S","T","U","V","W","X","Y","Z","Á","Ã","É","Í","Ô">>

Digits == <<"0","1","2","3","4","5","6","7","8","9">>

IndexIn(seq, c) ==
  IF \E i \in 1..Len(seq) : seq[i] = c
    THEN CHOOSE i \in 1..Len(seq) : seq[i] = c
    ELSE 0

\* String.prototype.toUpperCase / toLowerCase, one character
UpperChar(c) == IF IndexIn(LowerAlpha, c) > 0 THEN UpperAlpha[IndexIn(LowerAlpha, c)] ELSE c

LowerChar(c) == IF IndexIn(UpperAlpha, c) > 0 THEN LowerAlpha[IndexIn(UpperAlpha, c)] ELSE c

ToUpperCase(s) == [i \in 1..Len(s) |-> UpperChar(s[i])]

ToLowerCase(s) == [i \in 1..Len(s) |-> LowerChar(s[i])]

\* the characters \s matches and trim() removes
IsSpace(c) == c \in {" ", "\t"}

RECURSIVE TrimStart(_)
TrimStart(s) ==
  IF s # <<>> /\ IsSpace(Head(s)) THEN TrimStart(Tail(s)) ELSE s

RECURSIVE TrimEnd(_)
TrimEnd(s) ==
  IF s # <<>> /\ IsSpace(s[Len(s)]) THEN TrimEnd(SubSeq(s, 1, Len(s) - 1)) ELSE s

\* String.prototype.trim
Trim(s) == TrimEnd(TrimStart(s))

\* String.prototype.split(sep) for a one-character separator
RECURSIVE SplitFrom(_, _, _, _)
SplitFrom(s, seps, cur, acc) ==
  IF s = <<>> THEN Append(acc, cur)
  ELSE IF Head(s) \in seps THEN SplitFrom(Tail(s), seps, <<>>, Append(acc, cur))
  ELSE SplitFrom(Tail(s), seps, Append(cur, Head(s)), acc)

SplitComma(s) == SplitFrom(s, {","}, <<>>, <<>>)

\* String.prototype.split(/\s+/): a run of white space is one separator
SplitWhitespace(s) ==
  LET pieces == SplitFrom(s, {" ", "\t"}, <<>>, <<>>)
      indexed == [i \in 1..Len(pieces) |-> <<i, pieces[i]>>]
      keep(p) == p[2] # <<>> \/ p[1] = 1 \/ p[1] = Len(pieces)
      kept == SelectSeq(indexed, keep)
  IN  [i \in 1..Len(kept) |-> kept[i][2]]

\* String.prototype.replace(/\s+/g, '-')
RECURSIVE HyphenateRuns(_, _)
HyphenateRuns(s, inRun) ==
  IF s = <<>> THEN <<>>
  ELSE IF IsSpace(Head(s))
    THEN (IF inRun THEN <<>> ELSE <<"-">>) \o HyphenateRuns(Tail(s), TRUE)
    ELSE <<Head(s)>> \o HyphenateRuns(Tail(s), FALSE)

\* ------------------------------------------------------------------------
\* JavaScript values
\* ------------------------------------------------------------------------
Undef == [t |-> "undefined"]

JNull == [t |-> "null"]

JStr(s) == [t |-> "string", v |-> s]

JNum(n) == [t |-> "number", v |-> n]

JArr(a) == [t |-> "array", v |-> a]

IsString(x) == x.t = "string"

IsArray(x) == x.t = "array"

\* !x
Falsy(x) ==
  \/ x.t \in {"undefined", "null"}
  \/ x.t = "string" /\ x.v = <<>>
  \/ x.t = "number" /\ x.v = 0

\* parseInt(string): leading white space, optional sign, decimal digits
RECURSIVE DigitsValue(_, _, _)
DigitsValue(s, acc, seen) ==
  IF s # <<>> /\ IndexIn(Digits, Head(s)) > 0
    THEN DigitsValue(Tail(s), 10 * acc + (IndexIn(Digits, Head(s)) - 1), TRUE)
    ELSE [nan |-> ~seen, n |-> acc]

\* the sign applied to the digits read
Signed(neg, r) == [nan |-> r.nan, n |-> IF neg THEN 0 - r.n ELSE r.n]

\* parseInt of a string that starts with no white space
ParseIntTrimmed(t) ==
  Signed(t # <<>> /\ Head(t) = "-",
         DigitsValue(IF t # <<>> /\ Head(t) \in {"-", "+"} THEN Tail(t) ELSE t, 0, FALSE))

ParseIntStr(s) == ParseIntTrimmed(TrimStart(s))

\* parseInt(x) for the value types a request can carry
ParseInt(x) ==
  CASE x.t = "string" -> ParseIntStr(x.v)
    [] x.t = "number" -> [nan |-> FALSE, n |-> x.v]
    [] x.t = "array" ->
         IF x.v # <<>> /\ x.v[1].t = "string" THEN ParseIntStr(x.v[1].v)
         ELSE IF x.v # <<>> /\ x.v[1].t = "number" THEN [nan |-> FALSE, n |-> x.v[1].v]
         ELSE [nan |-> TRUE, n |-> 0]
    [] OTHER -> [nan |-> TRUE, n |-> 0]

\* parseInt(x) || dflt
OrElse(r, dflt) == IF r.nan \/ r.n = 0 THEN dflt ELSE r.n

ParseIntOr(x, dflt) == OrElse(ParseInt(x), dflt)

\* ------------------------------------------------------------------------
\* Name / value normalizers (acquisition and curation routes)
\* ------------------------------------------------------------------------
NonEmpty(s) == s # <<>>

\* parseCommaSeparated(str): array of trimmed, non-empty pieces
parseCommaSeparated(x) ==
  IF Falsy(x) \/ ~IsString(x) THEN <<>>
  ELSE LET pieces == SplitComma(x.v)
           trimmed == [i \in 1..Len(pieces) |-> Trim(pieces[i])]
       IN  SelectSeq(trimmed, NonEmpty)

\* formatVernacularName(name): lower case, runs of white space -> '-'
formatVernacularName(x) ==
  IF Falsy(x) \/ ~IsString(x) THEN <<>>
  ELSE HyphenateRuns(ToLowerCase(Trim(x.v)), FALSE)

\* stateMap of formatStateName
stateMap ==
  <<
    <<<<"A","C">>, <<"A","c","r","e">>>>,
    <<<<"A","L">>, <<"A","l","a","g","o","a","s">>>>,
    <<<<"A","P">>, <<"A","m","a","p","á">>>>,
    <<<<"A","M">>, <<"A","m","a","z","o","n","a","s">>>>,
    <<<<"B","A">>, <<"B","a","h","i","a">>>>,
    <<<<"C","E">>, <<"C","e","a","r","á">>>>,
    <<<<"D","F">>, <<"D","i","s","t","r","i","t","o"," ","F","e","d","e","r","a","l">>>>,
    <<<<"E","S">>, <<"E","s","p","í","r","i","t","o"," ","S","a","n","t","o">>>>,
    <<<<"G","O">>, <<"G","o","i","á","s">>>>,
    <<<<"M","A">>, <<"M","a","r","a","n","h","ã","o">>>>,
    <<<<"M","T">>, <<"M","a","t","o"," ","G","r","o","s","s","o">>>>,
    <<<<"M","S">>, <<"M","a","t","o"," ","G","r","o","s","s","o"," ","d","o"," ","S","u","l">>>>,
    <<<<"M","G">>, <<"M","i","n","a","s"," ","G","e","r","a","i","s">>>>,
    <<<<"P","A">>, <<"P","a","r","á">>>>,
    <<<<"P","B">>, <<"P","a","r","a","í","b","a">>>>,
    <<<<"P","R">>, <<"P","a","r","a","n","á">>>>,
    <<<<"P","E">>, <<"P","e","r","n","a","m","b","u","c","o">>>>,
    <<<<"P","I">>, <<"P","i","a","u","í">>>>,
    <<<<"R","J">>, <<"R","i","o"," ","d","e"," ","J","a","n","e","i","r","o">>>>,
    <<<<"R","N">>, <<"R","i","o"," ","G","r","a","n","d","e"," ","d","o"," ","N","o","r","t","e">>>>,
    <<<<"R","S">>, <<"R","i","o"," ","G","r","a","n","d","e"," ","d","o"," ","S","u","l">>>>,
    <<<<"R","O">>, <<"R","o","n","d","ô","n","i","a">>>>,
    <<<<"R","R">>, <<"R","o","r","a","i","m","a">>>>,
    <<<<"S","C">>, <<"S","a","n","t","a"," ","C","a","t","a","r","i","n","a">>>>,
    <<<<"S","P">>, <<"S","ã","o"," ","P","a","u","l","o">>>>,
    <<<<"S","E">>, <<"S","e","r","g","i","p","e">>>>,
    <<<<"T","O">>, <<"T","o","c","a","n","t","i","n","s">>>>
  >>

\* formatStateName(state): two-letter code -> full name, else trimmed input
formatStateName(x) ==
  IF Falsy(x) \/ ~IsString(x) THEN <<>>
  ELSE LET trimmed == ToUpperCase(Trim(x.v))
       IN  IF \E i \in 1..Len(stateMap) : stateMap[i][1] = trimmed
             THEN stateMap[CHOOSE i \in 1..Len(stateMap) : stateMap[i][1] = trimmed][2]
             ELSE Trim(x.v)

\* formatAuthorABNT(author): "SOBRENOME, N."
formatAuthorABNT(x) ==
  IF Falsy(x) \/ ~IsString(x) THEN <<>>
  ELSE LET author == Trim(x.v) IN
    IF author = <<>> THEN <<>>
    ELSE IF \E i \in 1..Len(author) : author[i] = ","
      THEN LET parts == SplitComma(author)
               lastName == Trim(parts[1])
               firstName == Trim(parts[2])
           IN  IF firstName = <<>> THEN ToUpperCase(lastName)
               ELSE ToUpperCase(lastName) \o <<",", " ">>
                      \o <<UpperChar(firstName[1])>> \o <<".">>
      ELSE LET parts == SelectSeq(SplitWhitespace(author), NonEmpty) IN
           IF Len(parts) = 1 THEN ToUpperCase(parts[1])
           ELSE ToUpperCase(parts[Len(parts)]) \o <<",", " ">>
                  \o <<UpperChar(parts[1][1])>> \o <<".">>

\* plant => hasScientificName || hasVernacularName
HasName(names) ==
  \E i \in 1..Len(names) :
    ~Falsy(names[i]) /\ IsString(names[i]) /\ Trim(names[i].v) # <<>>

KeepPlant(plant) == HasName(plant.nomeCientifico) \/ HasName(plant.nomeVernacular)

\* filterEmptyPlants(plantas): drops the plants that carry no name
filterEmptyPlants(plantas) == SelectSeq(plantas, KeepPlant)

\* ------------------------------------------------------------------------
\* Request bodies
\*   body.f    : the top-level fields (key -> JavaScript value)
\*   body.keys : the bracket-indexed keys in Object.keys order, each
\*               [ci, plant, pi, field, val] for comunidades[ci][field] or
\*               comunidades[ci][plantas][pi][field]
\* A nested body carries f.comunidades = JArr of community objects.
\* ------------------------------------------------------------------------
Get(obj, k) == IF k \in DOMAIN obj THEN obj[k] ELSE Undef

JObj(fields) == [t |-> "object", f |-> fields]

\* obj.k for a value of any type (throws on null / undefined, see CanRead)
Prop(x, k) == IF x.t = "object" THEN Get(x.f, k) ELSE Undef

CanRead(x) == x.t \notin {"undefined", "null"}

\* x?.trim() is callable: x is nullish or a string
CanTrim(x) == x.t \in {"undefined", "null", "string"}

\* x?.trim() || ''
TrimOrEmpty(x) == IF x.t = "string" THEN Trim(x.v) ELSE <<>>

StrArray(pieces) == [i \in 1..Len(pieces) |-> JStr(pieces[i])]

\* Status enum (models/Reference)
PENDING == <<"p","e","n","d","i","n","g">>

APPROVED == <<"a","p","p","r","o","v","e","d">>

REJECTED == <<"r","e","j","e","c","t","e","d">>

StatusValues == {PENDING, APPROVED, REJECTED}

\* decimal representation of a property key
RECURSIVE DecStr(_)
DecStr(n) ==
  IF n < 10 THEN <<Digits[n + 1]>>
  ELSE DecStr(n \div 10) \o <<Digits[(n % 10) + 1]>>

\* a < b in the order Array.prototype.sort() uses on digit strings
RECURSIVE LexLess(_, _)
LexLess(a, b) ==
  IF a = <<>> THEN b # <<>>
  ELSE IF b = <<>> THEN FALSE
  ELSE IF Head(a) # Head(b) THEN IndexIn(Digits, Head(a)) < IndexIn(Digits, Head(b))
  ELSE LexLess(Tail(a), Tail(b))

\* Object.keys(obj).sort() for integer keys
RECURSIVE SortedKeys(_)
SortedKeys(S) ==
  IF S = {} THEN <<>>
  ELSE LET m == CHOOSE x \in S : \A y \in S \ {x} : LexLess(DecStr(x), DecStr(y))
       IN  <<m>> \o SortedKeys(S \ {m})

\* the Object.keys(formData).forEach loop: group by parsed index
\* obj[field] = val
SetField(obj, field, val) ==
  [g \in (DOMAIN obj) \cup {field} |-> IF g = field THEN val ELSE obj[g]]

\* if (!data[idx]) data[idx] = { plantas: {} }
EnsureCommunity(data, idx) ==
  IF idx \in DOMAIN data THEN data
  ELSE data @@ (idx :> [f |-> <<>>, plantas |-> <<>>])

\* if (!plantas[pIdx]) plantas[pIdx] = {}
EnsurePlant(plantas, pIdx) ==
  IF pIdx \in DOMAIN plantas THEN plantas ELSE plantas @@ (pIdx :> <<>>)

\* the assignment one key makes in its community
AssignKey(com, k, pIdx) ==
  IF k.plant
    THEN [com EXCEPT !.plantas =
            [EnsurePlant(@, pIdx) EXCEPT ![pIdx] = SetField(@, k.field, k.val)]]
    ELSE [com EXCEPT !.f = SetField(@, k.field, k.val)]

CollectKey(d0, idx, k) ==
  [d0 EXCEPT ![idx] = AssignKey(@, k, ParseIntStr(k.pi).n)]

CollectIndexed(data, idx, k) == CollectKey(EnsureCommunity(data, idx), idx, k)

RECURSIVE CollectKeys(_, _)
CollectKeys(keys, data) ==
  IF keys = <<>> THEN data
  ELSE CollectKeys(Tail(keys), CollectIndexed(data, ParseIntStr(Head(keys).ci).n, Head(keys)))

FlatPlant(plant) ==
  [nomeCientifico |-> StrArray(parseCommaSeparated(Get(plant, "nomeCientifico"))),
   nomeVernacular |->
     LET names == parseCommaSeparated(Get(plant, "nomeVernacular"))
     IN  [i \in 1..Len(names) |-> JStr(formatVernacularName(JStr(names[i])))],
   tipoUso |-> StrArray(parseCommaSeparated(Get(plant, "tipoUso")))]

FlatPlants(com) ==
  LET order == SortedKeys(DOMAIN com.plantas)
  IN  [i \in 1..Len(order) |-> FlatPlant(com.plantas[order[i]])]

CommunityTrimFields == {"nome", "tipo", "municipio", "local", "observacoes"}

FlatCommunity(com, plantas) ==
  [nome |-> TrimOrEmpty(Get(com.f, "nome")),
   tipo |-> TrimOrEmpty(Get(com.f, "tipo")),
   municipio |-> TrimOrEmpty(Get(com.f, "municipio")),
   estado |-> formatStateName(Get(com.f, "estado")),
   local |-> TrimOrEmpty(Get(com.f, "local")),
   atividadesEconomicas |-> StrArray(parseCommaSeparated(Get(com.f, "atividadesEconomicas"))),
   observacoes |-> TrimOrEmpty(Get(com.f, "observacoes")),
   plantas |-> plantas]

FlatThrows(data) ==
  \E i \in DOMAIN data : \E g \in CommunityTrimFields : ~CanTrim(Get(data[i].f, g))

TopThrows(body) ==
  \E g \in {"titulo", "resumo", "DOI"} : ~CanTrim(Get(body.f, g))

Autores(body) ==
  LET names == parseCommaSeparated(Get(body.f, "autores"))
  IN  [i \in 1..Len(names) |-> JStr(formatAuthorABNT(JStr(names[i])))]

\* a plant of an already-nested body
NestedPlant(p) ==
  [nomeCientifico |->
     IF IsArray(Prop(p, "nomeCientifico")) THEN Prop(p, "nomeCientifico").v
     ELSE StrArray(parseCommaSeparated(Prop(p, "nomeCientifico"))),
   nomeVernacular |->
     LET names == IF IsArray(Prop(p, "nomeVernacular")) THEN Prop(p, "nomeVernacular").v
                  ELSE StrArray(parseCommaSeparated(Prop(p, "nomeVernacular")))
     IN  [i \in 1..Len(names) |-> JStr(formatVernacularName(names[i]))],
   tipoUso |->
     IF IsArray(Prop(p, "tipoUso")) THEN Prop(p, "tipoUso").v
     ELSE StrArray(parseCommaSeparated(Prop(p, "tipoUso")))]

\* (com.plantas || [])
NestedPlantList(com) ==
  IF Falsy(Prop(com, "plantas")) THEN <<>>
  ELSE IF IsArray(Prop(com, "plantas")) THEN Prop(com, "plantas").v
  ELSE <<>>

NestedCommunity(com) ==
  [nome |-> TrimOrEmpty(Prop(com, "nome")),
   tipo |-> TrimOrEmpty(Prop(com, "tipo")),
   municipio |-> TrimOrEmpty(Prop(com, "municipio")),
   estado |-> formatStateName(Prop(com, "estado")),
   local |-> TrimOrEmpty(Prop(com, "local")),
   atividadesEconomicas |->
     IF IsArray(Prop(com, "atividadesEconomicas")) THEN Prop(com, "atividadesEconomicas").v
     ELSE StrArray(parseCommaSeparated(Prop(com, "atividadesEconomicas"))),
   observacoes |-> TrimOrEmpty(Prop(com, "observacoes")),
   plantas |->
     LET ps == NestedPlantList(com)
     IN  filterEmptyPlants([j \in 1..Len(ps) |-> NestedPlant(ps[j])])]

\* the TypeErrors of the nested branch: a property read on null/undefined,
\* .trim() on a non-string, .map() on a truthy non-array
NestedThrows(coms) ==
  \E i \in 1..Len(coms) :
    \/ ~CanRead(coms[i])
    \/ \E g \in CommunityTrimFields : ~CanTrim(Prop(coms[i], g))
    \/ ~Falsy(Prop(coms[i], "plantas")) /\ ~IsArray(Prop(coms[i], "plantas"))
    \/ \E j \in 1..Len(NestedPlantList(coms[i])) : ~CanRead(NestedPlantList(coms[i])[j])

\* the communities of the flat branch, in the order of their sorted keys;
\* the acquisition routes drop the plants without a name here
AcqCommunities(data, order) ==
  [i \in 1..Len(order) |->
     FlatCommunity(data[order[i]], filterEmptyPlants(FlatPlants(data[order[i]])))]

CurCommunities(data, order) ==
  [i \in 1..Len(order) |-> FlatCommunity(data[order[i]], FlatPlants(data[order[i]]))]

\* the branch of parseFormData for an already-nested body
AcqParseNested(body, coms) ==
  IF TopThrows(body) \/ NestedThrows(coms) THEN [threw |-> TRUE]
  ELSE [threw |-> FALSE,
        ref |-> [titulo |-> TrimOrEmpty(Get(body.f, "titulo")),
                 autores |-> Autores(body),
                 ano |-> ParseIntOr(Get(body.f, "ano"), 0),
                 resumo |-> TrimOrEmpty(Get(body.f, "resumo")),
                 DOI |-> TrimOrEmpty(Get(body.f, "DOI")),
                 status |-> Undef,
                 comunidades |-> [i \in 1..Len(coms) |-> NestedCommunity(coms[i])]]]

\* the branch of parseFormData for bracket-indexed keys
AcqParseFlat(body, data) ==
  IF TopThrows(body) \/ FlatThrows(data) THEN [threw |-> TRUE]
  ELSE [threw |-> FALSE,
        ref |-> [titulo |-> TrimOrEmpty(Get(body.f, "titulo")),
                 autores |-> Autores(body),
                 ano |-> ParseIntOr(Get(body.f, "ano"), 0),
                 resumo |-> TrimOrEmpty(Get(body.f, "resumo")),
                 DOI |-> TrimOrEmpty(Get(body.f, "DOI")),
                 status |-> Undef,
                 comunidades |-> AcqCommunities(data, SortedKeys(DOMAIN data))]]

\* parseFormData of the acquisition routes; threw = a TypeError escapes
AcqParseFormData(body) ==
  IF IsArray(Get(body.f, "comunidades"))
    THEN AcqParseNested(body, Get(body.f, "comunidades").v)
    ELSE AcqParseFlat(body, CollectKeys(body.keys, <<>>))

CurParseFlat(body, data) ==
  IF TopThrows(body) \/ FlatThrows(data) THEN [threw |-> TRUE]
  ELSE [threw |-> FALSE,
        ref |-> [titulo |-> TrimOrEmpty(Get(body.f, "titulo")),
                 autores |-> StrArray(parseCommaSeparated(Get(body.f, "autores"))),
                 ano |-> ParseIntOr(Get(body.f, "ano"), 0),
                 resumo |-> TrimOrEmpty(Get(body.f, "resumo")),
                 DOI |-> TrimOrEmpty(Get(body.f, "DOI")),
                 status |-> IF Falsy(Get(body.f, "status")) THEN JStr(PENDING)
                            ELSE Get(body.f, "status"),
                 comunidades |-> CurCommunities(data, SortedKeys(DOMAIN data))]]

\* parseFormData of the curation routes
CurParseFormData(body) == CurParseFlat(body, CollectKeys(body.keys, <<>>))

\* ------------------------------------------------------------------------
\* Validation service
\* An error message is [c, p, k, msg]: community, plant and entry number
\* interpolated in the text (0 = not part of the message).
\* ------------------------------------------------------------------------
Constraints ==
  [titulo |-> 500, resumo |-> 5000, DOI |-> 100, anoMin |-> 1500, anoMax |-> 2100,
   comNome |-> 200, comMunicipio |-> 100, comEstado |-> 100, comLocal |-> 500,
   comObservacoes |-> 2000, comAtividade |-> 100,
   nomeCientifico |-> 200, nomeVernacular |-> 100, tipoUso |-> 100]

Msg(c, p, k, text) == [c |-> c, p |-> p, k |-> k, msg |-> text]

\* a name check that accepts every truthy value
InvalidNameLax(x) == Falsy(x)

\* !n || typeof n !== 'string' || n.trim().length === 0
InvalidName(x) == Falsy(x) \/ ~IsString(x) \/ Trim(x.v) = <<>>

\* x && x.length > max
TooLong(x, max) == x.t \in {"string", "array"} /\ Len(x.v) > max

\* a concatenation that puts later messages first
RECURSIVE FlattenReversed(_)
FlattenReversed(seqs) ==
  IF seqs = <<>> THEN <<>> ELSE FlattenReversed(Tail(seqs)) \o Head(seqs)

RECURSIVE Flatten(_)
Flatten(seqs) == IF seqs = <<>> THEN <<>> ELSE Head(seqs) \o Flatten(Tail(seqs))

\* the three name lists of validatePlant share one shape
NameListErrors(names, c, p, max, required, allValid, tooLong) ==
  IF Len(names) = 0 THEN <<Msg(c, p, 0, required)>>
  ELSE (IF \E i \in 1..Len(names) : InvalidName(names[i])
          THEN <<Msg(c, p, 0, allValid)>> ELSE <<>>)
       \o Flatten([i \in 1..Len(names) |->
                     IF TooLong(names[i], max) THEN <<Msg(c, p, i, tooLong)>> ELSE <<>>])

validatePlant(planta, c, p) ==
  NameListErrors(planta.nomeCientifico, c, p, Constraints.nomeCientifico,
                 "Pelo menos um nome científico é obrigatório",
                 "Todos os nomes científicos devem ser válidos",
                 "Nome científico deve ter no máximo 200 caracteres")
  \o NameListErrors(planta.nomeVernacular, c, p, Constraints.nomeVernacular,
                 "Pelo menos um nome vernacular é obrigatório",
                 "Todos os nomes vernaculares devem ser válidos",
                 "Nome vernacular deve ter no máximo 100 caracteres")
  \o NameListErrors(planta.tipoUso, c, p, Constraints.tipoUso,
                 "Pelo menos um tipo de uso é obrigatório",
                 "Todos os tipos de uso devem ser válidos",
                 "Tipo de uso deve ter no máximo 100 caracteres")

RequiredField(s, c, max, required, tooLong) ==
  IF Trim(s) = <<>> THEN <<Msg(c, 0, 0, required)>>
  ELSE IF Len(s) > max THEN <<Msg(c, 0, 0, tooLong)>>
  ELSE <<>>

\* a community validator that accepts a community without plants
validateCommunityAnyPlants(comunidade, c) ==
  Flatten([p \in 1..Len(comunidade.plantas) |->
             validatePlant(comunidade.plantas[p], c, p)])

validateCommunity(comunidade, c) ==
  RequiredField(comunidade.nome, c, Constraints.comNome,
                "Nome é obrigatório", "Nome deve ter no máximo 200 caracteres")
  \o RequiredField(comunidade.municipio, c, Constraints.comMunicipio,
                "Município é obrigatório", "Município deve ter no máximo 100 caracteres")
  \o RequiredField(comunidade.estado, c, Constraints.comEstado,
                "Estado é obrigatório", "Estado deve ter no máximo 100 caracteres")
  \o (IF Len(comunidade.local) > Constraints.comLocal
        THEN <<Msg(c, 0, 0, "Local deve ter no máximo 500 caracteres")>> ELSE <<>>)
  \o (IF Len(comunidade.observacoes) > Constraints.comObservacoes
        THEN <<Msg(c, 0, 0, "Observações devem ter no máximo 2000 caracteres")>> ELSE <<>>)
  \o Flatten([a \in 1..Len(comunidade.atividadesEconomicas) |->
                IF TooLong(comunidade.atividadesEconomicas[a], Constraints.comAtividade)
                  THEN <<Msg(c, 0, a, "Atividade econômica deve ter no máximo 100 caracteres")>>
                  ELSE <<>>])
  \o (IF Len(comunidade.plantas) = 0
        THEN <<Msg(c, 0, 0, "Pelo menos uma planta é obrigatória")>>
        ELSE Flatten([p \in 1..Len(comunidade.plantas) |->
                        validatePlant(comunidade.plantas[p], c, p)]))

ReferenceErrors(data) ==
  RequiredField(data.titulo, 0, Constraints.titulo,
                "Título é obrigatório", "Título deve ter no máximo 500 caracteres")
  \o (IF Len(data.autores) = 0
        THEN <<Msg(0, 0, 0, "Pelo menos um autor é obrigatório")>>
        ELSE IF \E i \in 1..Len(data.autores) : InvalidName(data.autores[i])
          THEN <<Msg(0, 0, 0, "Todos os autores devem ter um nome válido")>>
          ELSE <<>>)
  \o (IF data.ano = 0
        THEN <<Msg(0, 0, 0, "Ano é obrigatório e deve ser um número inteiro")>>
        ELSE IF data.ano < Constraints.anoMin \/ data.ano > Constraints.anoMax
          THEN <<Msg(0, 0, 0, "Ano deve estar entre 1500 e 2100")>>
          ELSE <<>>)
  \o (IF Len(data.resumo) > Constraints.resumo
        THEN <<Msg(0, 0, 0, "Resumo deve ter no máximo 5000 caracteres")>> ELSE <<>>)
  \o (IF Len(data.DOI) > Constraints.DOI
        THEN <<Msg(0, 0, 0, "DOI deve ter no máximo 100 caracteres")>> ELSE <<>>)
  \o (IF ~Falsy(data.status) /\ ~(IsString(data.status) /\ data.status.v \in StatusValues)
        THEN <<Msg(0, 0, 0, "Status deve ser \"pending\", \"approved\" ou \"rejected\"")>> ELSE <<>>)
  \o (IF Len(data.comunidades) = 0
        THEN <<Msg(0, 0, 0, "Pelo menos uma comunidade é obrigatória")>>
        ELSE Flatten([c \in 1..Len(data.comunidades) |->
                        validateCommunity(data.comunidades[c], c)]))

\* validateReference(data) -> { isValid, errors }
Verdict(errors) == [isValid |-> Len(errors) = 0, errors |-> errors]

validateReference(data) == Verdict(ReferenceErrors(data))

\* ------------------------------------------------------------------------
\* validateReference called on a value of any type.  The reads of a value:
\*   Array.isArray(x) ? x : nothing to iterate        ArrayOf
\*   typeof x === 'string' ? x : fails "required"     TextOf
\*   x && x.length                                    LengthOf
\*   Number.isInteger(x) ? x : fails "required"       IntOf
\* ------------------------------------------------------------------------
ArrayOf(x) == IF IsArray(x) THEN x.v ELSE <<>>

TextOf(x) == IF IsString(x) THEN x.v ELSE <<>>

LengthOf(x) == IF x.t \in {"string", "array"} THEN x.v ELSE <<>>

IntOf(x) == IF x.t = "number" THEN x.v ELSE 0

\* the properties validatePlant reads of planta
PlantOf(p) ==
  [nomeCientifico |-> ArrayOf(Prop(p, "nomeCientifico")),
   nomeVernacular |-> ArrayOf(Prop(p, "nomeVernacular")),
   tipoUso |-> ArrayOf(Prop(p, "tipoUso"))]

\* the properties validateCommunity reads of comunidade
CommunityOf(c) ==
  [nome |-> TextOf(Prop(c, "nome")),
   municipio |-> TextOf(Prop(c, "municipio")),
   estado |-> TextOf(Prop(c, "estado")),
   local |-> LengthOf(Prop(c, "local")),
   observacoes |-> LengthOf(Prop(c, "observacoes")),
   atividadesEconomicas |-> ArrayOf(Prop(c, "atividadesEconomicas")),
   plantas |-> [j \in 1..Len(ArrayOf(Prop(c, "plantas"))) |->
                  PlantOf(ArrayOf(Prop(c, "plantas"))[j])]]

\* the properties validateReference reads of data
ReferenceOf(x) ==
  [titulo |-> TextOf(Prop(x, "titulo")),
   autores |-> ArrayOf(Prop(x, "autores")),
   ano |-> IntOf(Prop(x, "ano")),
   resumo |-> LengthOf(Prop(x, "resumo")),
   DOI |-> LengthOf(Prop(x, "DOI")),
   status |-> Prop(x, "status"),
   comunidades |-> [i \in 1..Len(ArrayOf(Prop(x, "comunidades"))) |->
                      CommunityOf(ArrayOf(Prop(x, "comunidades"))[i])]]

\* planta.nomeCientifico of a null / undefined entry of plantas
PlantReadThrows(ps) == \E j \in 1..Len(ps) : ~CanRead(ps[j])

\* comunidade.nome of a null / undefined entry of comunidades, or a plant
\* read that throws inside a community
CommunityReadThrows(cs) ==
  \E i \in 1..Len(cs) :
    ~CanRead(cs[i]) \/ PlantReadThrows(ArrayOf(Prop(cs[i], "plantas")))

\* validateReference(x) ends in a TypeError: data.titulo of null / undefined,
\* or a read that throws in validateCommunity / validatePlant
ValidateThrows(x) ==
  ~CanRead(x) \/ CommunityReadThrows(ArrayOf(Prop(x, "comunidades")))

\* a call validateReference(x): threw, or the { isValid, errors } returned
ValidateCall(x) ==
  IF ValidateThrows(x) THEN [threw |-> TRUE]
  ELSE [threw |-> FALSE] @@ validateReference(ReferenceOf(x))


\* ------------------------------------------------------------------------
\* Search query builder (presentation routes)
\* ------------------------------------------------------------------------
RegexSpecials == {".", "*", "+", "?", "^", "$", "{", "}", "(", ")", "|", "[", "]", "\\"}

\* a sanitizer that leaves the special characters as they are
EscapeNothing(s) == s

RECURSIVE EscapeSpecials(_)
EscapeSpecials(s) ==
  IF s = <<>> THEN <<>>
  ELSE (IF Head(s) \in RegexSpecials THEN <<"\\", Head(s)>> ELSE <<Head(s)>>)
         \o EscapeSpecials(Tail(s))

\* sanitizeRegex(str): trim, then a backslash before every special character
sanitizeRegex(x) ==
  IF Falsy(x) \/ ~IsString(x) THEN <<>> ELSE EscapeSpecials(Trim(x.v))

\* a filter test that takes blank text for a filter
FilterGivenUntrimmed(x) == ~Falsy(x) /\ IsString(x)

\* filters.f && filters.f.trim().length > 0
FilterGiven(x) == ~Falsy(x) /\ IsString(x) /\ Trim(x.v) # <<>>

\* .trim() on a truthy non-string filter value is a TypeError
FilterThrows(x) == ~Falsy(x) /\ ~IsString(x)

FilterNames == <<"comunidade", "planta", "estado", "municipio">>

\* a plant filter that looks at the scientific names alone
FilterPathsScientific(name) ==
  CASE name = "comunidade" -> {"comunidades.nome"}
    [] name = "planta" -> {"comunidades.plantas.nomeCientifico"}
    [] name = "estado" -> {"comunidades.estado"}
    [] name = "municipio" -> {"comunidades.municipio"}

FilterPaths(name) ==
  CASE name = "comunidade" -> {"comunidades.nome"}
    [] name = "planta" -> {"comunidades.plantas.nomeCientifico",
                           "comunidades.plantas.nomeVernacular"}
    [] name = "estado" -> {"comunidades.estado"}
    [] name = "municipio" -> {"comunidades.municipio"}

\* a pattern without anchors for every filter
FilterRegexUnanchored(name, x) == sanitizeRegex(x)

FilterRegex(name, x) ==
  IF name \in {"estado", "municipio"}
    THEN <<"^">> \o sanitizeRegex(x) \o <<"$">>
    ELSE sanitizeRegex(x)

\* a query builder that asks for the records awaiting curation
buildSearchQueryPending(filters) ==
  [status |-> JStr(PENDING), and |-> <<>>]

\* buildSearchQuery(filters): { status: 'approved', $and: conditions }
\* a condition is [paths, regex]: some path matches regex, ignoring case
buildSearchQuery(filters) ==
  LET given == SelectSeq(FilterNames, LAMBDA n : FilterGiven(Get(filters, n)))
  IN  [status |-> JStr(APPROVED),
       and |-> [i \in 1..Len(given) |->
                  [paths |-> FilterPaths(given[i]),
                   regex |-> FilterRegex(given[i], Get(filters, given[i]))]]]

BuildThrows(filters) ==
  \E i \in 1..Len(FilterNames) : FilterThrows(Get(filters, FilterNames[i]))

\* ------------------------------------------------------------------------
\* Pattern matching as the store evaluates $regex with $options 'i':
\* literals, \c escapes, '.', the quantifiers * + ?, the anchors ^ and $
\* ------------------------------------------------------------------------
AtomLen(p) == IF Head(p) = "\\" /\ Len(p) >= 2 THEN 2 ELSE 1

AtomMatches(p, c) ==
  IF Head(p) = "\\" /\ Len(p) >= 2 THEN LowerChar(p[2]) = LowerChar(c)
  ELSE IF Head(p) = "." THEN TRUE
  ELSE LowerChar(Head(p)) = LowerChar(c)

RECURSIVE MatchHere(_, _)
MatchHere(p, s) ==
  IF p = <<>> THEN TRUE
  ELSE IF p = <<"$">> THEN s = <<>>
  ELSE
    LET rest == SubSeq(p, AtomLen(p) + 1, Len(p))
        quant == IF rest # <<>> /\ Head(rest) \in {"*", "+", "?"} THEN Head(rest) ELSE ""
    IN  IF quant # ""
          THEN \E k \in 0..Len(s) :
                 /\ quant = "+" => k >= 1
                 /\ quant = "?" => k <= 1
                 /\ \A j \in 1..k : AtomMatches(p, s[j])
                 /\ MatchHere(Tail(rest), SubSeq(s, k + 1, Len(s)))
          ELSE s # <<>> /\ AtomMatches(p, Head(s)) /\ MatchHere(rest, Tail(s))

RegexTest(p, s) ==
  IF p # <<>> /\ Head(p) = "^" THEN MatchHere(Tail(p), s)
  ELSE \E i \in 0..Len(s) : MatchHere(p, SubSeq(s, i + 1, Len(s)))

\* the values a dotted path reaches in a document (arrays are traversed)
PathValues(doc, path) ==
  CASE path = "comunidades.nome" ->
         {doc.comunidades[c].nome : c \in 1..Len(doc.comunidades)}
    [] path = "comunidades.estado" ->
         {doc.comunidades[c].estado : c \in 1..Len(doc.comunidades)}
    [] path = "comunidades.municipio" ->
         {doc.comunidades[c].municipio : c \in 1..Len(doc.comunidades)}
    [] path = "comunidades.plantas.nomeCientifico" ->
         UNION {UNION {{n.v : n \in {x \in {doc.comunidades[c].plantas[p].nomeCientifico[k] :
                                       k \in 1..Len(doc.comunidades[c].plantas[p].nomeCientifico)} :
                                         IsString(x)}} :
                         p \in 1..Len(doc.comunidades[c].plantas)} :
                c \in 1..Len(doc.comunidades)}
    [] path = "comunidades.plantas.nomeVernacular" ->
         UNION {UNION {{n.v : n \in {x \in {doc.comunidades[c].plantas[p].nomeVernacular[k] :
                                       k \in 1..Len(doc.comunidades[c].plantas[p].nomeVernacular)} :
                                         IsString(x)}} :
                         p \in 1..Len(doc.comunidades[c].plantas)} :
                c \in 1..Len(doc.comunidades)}

ConditionHolds(doc, cond) ==
  \E path \in cond.paths : \E v \in PathValues(doc, path) : RegexTest(cond.regex, v)

\* the documents a query selects
Matches(doc, query) ==
  /\ doc.status = query.status
  /\ \A i \in 1..Len(query.and) : ConditionHolds(doc, query.and[i])

\* ------------------------------------------------------------------------
\* Reference model (models/Reference) and database service
\* ------------------------------------------------------------------------
\* a constructor whose default status is approved
createReferenceApproved(data, now) ==
  [titulo |-> data.titulo, autores |-> data.autores, ano |-> data.ano,
   resumo |-> data.resumo, DOI |-> data.DOI,
   status |-> IF Falsy(data.status) THEN JStr(APPROVED) ELSE data.status,
   comunidades |-> data.comunidades,
   createdAt |-> now, updatedAt |-> now]

\* createReference(data): defaults for status and the two timestamps
createReference(data, now) ==
  [titulo |-> data.titulo, autores |-> data.autores, ano |-> data.ano,
   resumo |-> data.resumo, DOI |-> data.DOI,
   status |-> IF Falsy(data.status) THEN JStr(PENDING) ELSE data.status,
   comunidades |-> data.comunidades,
   createdAt |-> now, updatedAt |-> now]

\* updateReference(data): the $set document, { ...data, updatedAt: new Date() }
\* (a key the data does not carry, status = undefined, is not part of it)
updateReference(data, now) ==
  [titulo |-> data.titulo, autores |-> data.autores, ano |-> data.ano,
   resumo |-> data.resumo, DOI |-> data.DOI, status |-> data.status,
   comunidades |-> data.comunidades, updatedAt |-> now]

\* a $set that also rewrites createdAt
ApplySetStamping(doc, set) ==
  [titulo |-> set.titulo, autores |-> set.autores, ano |-> set.ano,
   resumo |-> set.resumo, DOI |-> set.DOI,
   status |-> IF set.status.t = "undefined" THEN doc.status ELSE set.status,
   comunidades |-> set.comunidades,
   createdAt |-> set.updatedAt, updatedAt |-> set.updatedAt]

\* { $set: updatedDoc } applied to a stored document
ApplySet(doc, set) ==
  [titulo |-> set.titulo, autores |-> set.autores, ano |-> set.ano,
   resumo |-> set.resumo, DOI |-> set.DOI,
   status |-> IF set.status.t = "undefined" THEN doc.status ELSE set.status,
   comunidades |-> set.comunidades,
   createdAt |-> doc.createdAt, updatedAt |-> set.updatedAt]

\* request identifiers: 0 stands for a string that is no ObjectId
\* (new ObjectId(id) throws), 1..MaxRecords are well-formed
MalformedId == 0

IdParams == 0..MaxRecords

\* error causes
NotFound == "Referência não encontrada"

InvalidStatus == "Status inválido"

BadObjectId == "BSONError: input must be a 24 character hex string"

StoreDown == "store unavailable"

NullValue == "TypeError: Cannot read properties of null (reading 'value')"

\* preservedReference reads reference.titulo ... reference._id of a null
\* reference; the property the message names is the first one it reads
NullId == "TypeError: Cannot read properties of null"

FormTypeError == "TypeError: trim is not a function"

\* result of a service call: err = <<>> when it returned normally, else the
\* segments of the message of the Error it threw; ret = what it returned;
\* docs = the collection afterwards
Returned(ret, d) == [err |-> <<>>, ret |-> ret, docs |-> d]

Threw(prefix, cause, d) == [err |-> <<prefix, cause>>, ret |-> "none", docs |-> d]

VARIABLES
  docs,      \* the collection: ObjectId -> stored document
  nextId,    \* the next identifier the store generates
  clock,     \* new Date()
  driver,    \* what findOneAndUpdate resolves to: "ModifyResult" ({value, ok,
             \* lastErrorObject}, driver < 6) or "Document" (driver 6.x)
  running,   \* FALSE once the unhandledRejection handler shut the process down
  last,      \* the last request: operation, arguments, outcome
  flight,    \* the content updates in flight: request -> id, data, position
  conn       \* the Database singleton and the reconnect() call in progress

vars == <<docs, nextId, clock, driver, running, last, flight, conn>>

\* insertReference(referenceData)
insertReference(data, up) ==
  IF ~up THEN Threw("Falha ao salvar referência: ", StoreDown, docs)
  ELSE Returned("doc", docs @@ (nextId :> createReference(data, clock)))

\* findReferenceById(id)
findReferenceById(id, up) ==
  IF id = MalformedId THEN Threw("Falha ao buscar referência: ", BadObjectId, docs)
  ELSE IF ~up THEN Threw("Falha ao buscar referência: ", StoreDown, docs)
  ELSE IF id \in DOMAIN docs THEN Returned("doc", docs) ELSE Returned("null", docs)

\* a patch that leaves the stored communities as they were
AfterSetKeepingCommunities(id, set) ==
  [i \in DOMAIN docs |->
     IF i = id THEN [ApplySet(docs[i], set) EXCEPT !.comunidades = docs[i].comunidades]
     ELSE docs[i]]

\* collection.findOneAndUpdate({ _id }, { $set }) on the collection
AfterSet(id, set) ==
  [i \in DOMAIN docs |-> IF i = id THEN ApplySet(docs[i], set) ELSE docs[i]]

\* the code after findOneAndUpdate: if (!result.value) throw ...; return result.value
\* A Document result has no field named value; a null result has no fields.
ReadResultValue(prefix, found, d) ==
  IF driver = "ModifyResult"
    THEN IF found THEN Returned("doc", d) ELSE Threw(prefix, NotFound, d)
    ELSE IF found THEN Threw(prefix, NotFound, d) ELSE Threw(prefix, NullValue, d)

\* updateReferenceById(id, updateData)
updateReferenceById(id, data, up) ==
  IF id = MalformedId THEN Threw("Falha ao atualizar referência: ", BadObjectId, docs)
  ELSE IF ~up THEN Threw("Falha ao atualizar referência: ", StoreDown, docs)
  ELSE ReadResultValue("Falha ao atualizar referência: ", id \in DOMAIN docs,
                       AfterSet(id, updateReference(data, clock)))

\* a status patch that leaves the status as it was
StatusSetStale(doc, status, now) == [doc EXCEPT !.updatedAt = now]

\* a status patch that also clears the title and the abstract
StatusSetWide(doc, status, now) ==
  [doc EXCEPT !.status = status, !.updatedAt = now, !.resumo = <<>>, !.titulo = <<>>]

\* { $set: { status, updatedAt } }
StatusSet(doc, status, now) == [doc EXCEPT !.status = status, !.updatedAt = now]

\* a status update without the check of the status value
updateReferenceStatusUnchecked(id, status, up) ==
  IF id = MalformedId THEN Threw("Falha ao atualizar status: ", BadObjectId, docs)
  ELSE IF ~up THEN Threw("Falha ao atualizar status: ", StoreDown, docs)
  ELSE ReadResultValue("Falha ao atualizar status: ", id \in DOMAIN docs,
         [i \in DOMAIN docs |-> IF i = id THEN StatusSet(docs[i], status, clock) ELSE docs[i]])

\* updateReferenceStatus(id, status)
updateReferenceStatus(id, status, up) ==
  IF ~(IsString(status) /\ status.v \in StatusValues)
    THEN Threw("Falha ao atualizar status: ", InvalidStatus, docs)
  ELSE IF id = MalformedId THEN Threw("Falha ao atualizar status: ", BadObjectId, docs)
  ELSE IF ~up THEN Threw("Falha ao atualizar status: ", StoreDown, docs)
  ELSE ReadResultValue("Falha ao atualizar status: ", id \in DOMAIN docs,
         [i \in DOMAIN docs |-> IF i = id THEN StatusSet(docs[i], status, clock) ELSE docs[i]])

\* deleteReferenceById(id)
deleteReferenceById(id, up) ==
  IF id = MalformedId THEN Threw("Falha ao deletar referência: ", BadObjectId, docs)
  ELSE IF ~up THEN Threw("Falha ao deletar referência: ", StoreDown, docs)
  ELSE IF id \notin DOMAIN docs THEN Threw("Falha ao deletar referência: ", NotFound, docs)
  ELSE Returned("true", [i \in (DOMAIN docs) \ {id} |-> docs[i]])

\* find(query).sort({ createdAt: -1 }): newest first; the store returns
\* records of equal createdAt in any order, so this is the set of the
\* orders one execution of the cursor may produce
SortedIds(S) ==
  {o \in [1..Cardinality(S) -> S] :
     \A i, j \in 1..Cardinality(S) :
       i < j => o[i] # o[j] /\ docs[o[i]].createdAt >= docs[o[j]].createdAt}

\* cursor.skip(skip)
Skip(all, skip) == SubSeq(all, IF skip > 0 THEN skip + 1 ELSE 1, Len(all))

\* cursor.limit(limit)
Limit(rest, limit) ==
  IF limit > 0 /\ limit < Len(rest) THEN SubSeq(rest, 1, limit) ELSE rest

\* cursor.toArray()
ToArray(page) == [k \in 1..Len(page) |-> [id |-> page[k], doc |-> docs[page[k]]]]

\* findReferences(query, { limit, skip }): the arrays it may return
findReferences(query, limit, skip) ==
  {ToArray(Limit(Skip(order, skip), limit)) :
     order \in SortedIds({i \in DOMAIN docs : Matches(docs[i], query)})}

\* countReferences(query)
countReferences(query) == Cardinality({i \in DOMAIN docs : Matches(docs[i], query)})

\* Math.ceil(a / b) for a >= 0, b # 0
CeilDiv(a, b) == IF b > 0 THEN (a + b - 1) \div b ELSE 0 - (a \div (0 - b))

\* { references, total, page, limit, totalPages: Math.ceil(total / limit) }
SearchPage(references, total, page, limit) ==
  [err |-> <<>>, references |-> references, total |-> total,
   page |-> page, limit |-> limit, totalPages |-> CeilDiv(total, limit)]

\* searchReferences(query, page, limit): the outcomes it may have
searchReferences(query, page, limit, up) ==
  IF ~up THEN {[err |-> <<"Falha na busca: ", "Falha ao buscar referências: ", StoreDown>>]}
  ELSE {SearchPage(references, countReferences(query), page, limit) :
          references \in findReferences(query, limit, (page - 1) * limit)}

\* ------------------------------------------------------------------------
\* Request inputs of the model
\* ------------------------------------------------------------------------
CK(ci, field, val) == [ci |-> ci, plant |-> FALSE, pi |-> <<>>, field |-> field, val |-> val]

PK(ci, pi, field, val) == [ci |-> ci, plant |-> TRUE, pi |-> pi, field |-> field, val |-> val]

TopFields1 == [titulo |-> JStr(<<"T","1">>), autores |-> JStr(<<"S","I","L","V","A">>), ano |-> JStr(<<"2","0","0","0">>)]

TopFields2 == [titulo |-> JStr(<<"T","2">>), autores |-> JStr(<<"S","I","L","V","A">>), ano |-> JStr(<<"1","9","9","9">>), status |-> JStr(APPROVED)]

TopFields5 == [titulo |-> JStr(<<"T","5">>), autores |-> JStr(<<"S","I","L","V","A">>), ano |-> JStr(<<"2","0","0","0">>)]

CommunityKeys ==
  <<CK(<<"0">>, "nome", JStr(<<"C","a">>)), CK(<<"0">>, "municipio", JStr(<<"U","b">>)), CK(<<"0">>, "estado", JStr(<<"S","P">>))>>

PlantKeys0 ==
  <<PK(<<"0">>, <<"0">>, "nomeCientifico", JStr(<<"F","v">>)),
    PK(<<"0">>, <<"0">>, "nomeVernacular", JStr(<<"e","r","v","a"," ","d","o","c","e">>)),
    PK(<<"0">>, <<"0">>, "tipoUso", JStr(<<"m","e","d">>))>>

PlantKeys1 ==
  <<PK(<<"0">>, <<"1">>, "nomeCientifico", JStr(<<"B","p">>)),
    PK(<<"0">>, <<"1">>, "nomeVernacular", JStr(<<"p","i">>)),
    PK(<<"0">>, <<"1">>, "tipoUso", JStr(<<"a","l","i">>))>>

\* a plant block the user left without any name
EmptyPlantKeys(pi) ==
  <<PK(<<"0">>, pi, "nomeCientifico", JStr(<<>>)),
    PK(<<"0">>, pi, "nomeVernacular", JStr(<<" ">>)),
    PK(<<"0">>, pi, "tipoUso", JStr(<<"m","e","d">>))>>

NestedCommunities ==
  JArr(<<JObj([nome |-> JStr(<<"C","a">>), municipio |-> JStr(<<"U","b">>), estado |-> JStr(<<"S","P">>),
               plantas |-> JArr(<<JObj([nomeCientifico |-> JArr(<<JStr(<<"F","v">>)>>),
                                        nomeVernacular |-> JStr(<<"e","r","v","a"," ","d","o","c","e">>),
                                        tipoUso |-> JStr(<<"m","e","d">>)])>>)])>>)

Bodies ==
  <<[f |-> TopFields1, keys |-> CommunityKeys \o PlantKeys0],
    [f |-> TopFields2, keys |-> CommunityKeys \o PlantKeys0 \o PlantKeys1],
    [f |-> [titulo |-> JStr(<<"T","1">>), autores |-> JStr(<<"S","I","L","V","A">>), ano |-> JStr(<<"2","0","0","0">>), status |-> JStr(<<"b","o","g","u","s">>)],
     keys |-> CommunityKeys \o PlantKeys0],
    [f |-> TopFields1, keys |-> CommunityKeys \o EmptyPlantKeys(<<"0">>)],
    [f |-> TopFields5, keys |-> CommunityKeys \o PlantKeys0 \o EmptyPlantKeys(<<"1">>)],
    [f |-> TopFields1, keys |-> <<>>],
    [f |-> [titulo |-> JStr(<<"T","1">>), autores |-> JStr(<<"S","I","L","V","A">>), ano |-> JNum(2000),
            comunidades |-> NestedCommunities],
     keys |-> <<>>],
    [f |-> [titulo |-> JNum(5), autores |-> JStr(<<"S","I","L","V","A">>), ano |-> JStr(<<"2","0","0","0">>)],
     keys |-> CommunityKeys \o PlantKeys0]>>

BodyIds == 1..Len(Bodies)

Filters(comunidade, planta, estado, municipio) ==
  [comunidade |-> comunidade, planta |-> planta, estado |-> estado, municipio |-> municipio]

FilterInputs ==
  <<Filters(Undef, Undef, Undef, Undef),
    Filters(Undef, JStr(<<"e","r","v","a">>), Undef, Undef),
    Filters(JStr(<<"c","a">>), Undef, JStr(<<"s","ã","o"," ","p","a","u","l","o">>), JStr(<<>>)),
    Filters(JArr(<<JStr(<<"C","a">>)>>), Undef, Undef, Undef),
    Filters(Undef, JStr(<<"e","r","v","a"," ","d","o","c","e">>), Undef, Undef),
    Filters(Undef, Undef, JStr(<<"S","P">>), Undef),
    Filters(Undef, Undef, JStr(<<"S","ã","o"," ","P","a","u","l","o">>), Undef),
    Filters(Undef, JStr(<<"p","i">>), Undef, Undef)>>

PageInputs == {Undef, JStr(<<"2">>)}

LimitInputs == {Undef, JStr(<<"1">>)}

\* ------------------------------------------------------------------------
\* Values handed to validateReference: a record that satisfies every rule,
\* and the records that differ from it in one or two properties
\* ------------------------------------------------------------------------
\* a string of n characters
Long(n) == [i \in 1..n |-> "a"]

NameValues(max) ==
  {Undef, JArr(<<>>), JStr(<<"x">>), JArr(<<JStr(<<"x">>), JStr(<<" ">>)>>),
   JArr(<<JNum(1)>>), JArr(<<JStr(Long(max))>>),
   JArr(<<JStr(<<"x">>), JStr(Long(max + 1))>>)}

GoodPlant ==
  [nomeCientifico |-> JArr(<<JStr(<<"F","v">>)>>),
   nomeVernacular |-> JArr(<<JStr(<<"e","r","v","a">>)>>),
   tipoUso |-> JArr(<<JStr(<<"m","e","d">>)>>)]

PlantFieldValues ==
  [nomeCientifico |-> NameValues(Constraints.nomeCientifico),
   nomeVernacular |-> NameValues(Constraints.nomeVernacular),
   tipoUso |-> NameValues(Constraints.tipoUso)]

\* the plants that differ from GoodPlant in at most one property, and the
\* entries that are no object
PlantValues ==
  {JNull, JNum(5), JObj(GoodPlant)}
    \cup UNION {{JObj([GoodPlant EXCEPT ![f] = v]) : v \in PlantFieldValues[f]} :
                  f \in DOMAIN PlantFieldValues}

RequiredText(max) ==
  {Undef, JStr(<<>>), JStr(<<" ">>), JNum(5), JStr(Long(max)), JStr(Long(max + 1))}

OptionalText(max) == {JStr(<<>>), JNum(7), JStr(Long(max)), JStr(Long(max + 1))}

GoodCommunity ==
  [nome |-> JStr(<<"C","a">>), municipio |-> JStr(<<"U","b">>),
   estado |-> JStr(<<"S","P">>), local |-> Undef, observacoes |-> Undef,
   atividadesEconomicas |-> Undef, plantas |-> JArr(<<JObj(GoodPlant)>>)]

CommunityFieldValues ==
  [nome |-> RequiredText(Constraints.comNome),
   municipio |-> RequiredText(Constraints.comMunicipio),
   estado |-> RequiredText(Constraints.comEstado),
   local |-> OptionalText(Constraints.comLocal),
   observacoes |-> OptionalText(Constraints.comObservacoes),
   atividadesEconomicas |->
     {JArr(<<>>), JStr(<<"x">>),
      JArr(<<JStr(<<"p">>), JStr(Long(Constraints.comAtividade + 1))>>),
      JArr(<<JStr(Long(Constraints.comAtividade)), JNum(3)>>)},
   plantas |->
     {Undef, JArr(<<>>), JStr(<<"x">>)}
       \cup {JArr(<<p>>) : p \in PlantValues}
       \cup {JArr(<<JObj(GoodPlant), p>>) : p \in PlantValues}]

CommunityValues ==
  {JNull, JNum(5), JObj(GoodCommunity)}
    \cup UNION {{JObj([GoodCommunity EXCEPT ![f] = v]) : v \in CommunityFieldValues[f]} :
                  f \in DOMAIN CommunityFieldValues}

GoodReference ==
  [titulo |-> JStr(<<"T">>), autores |-> JArr(<<JStr(<<"S">>)>>), ano |-> JNum(2000),
   resumo |-> Undef, DOI |-> Undef, status |-> Undef,
   comunidades |-> JArr(<<JObj(GoodCommunity)>>)]

ReferenceFieldValues ==
  [titulo |-> RequiredText(Constraints.titulo),
   autores |-> {Undef, JArr(<<>>), JStr(<<"S">>), JArr(<<JStr(<<"S">>), JStr(<<" ">>)>>),
                JArr(<<JNum(1)>>)},
   ano |-> {Undef, JNum(0), JStr(<<"2","0","0","0">>),
            JNum(Constraints.anoMin - 1), JNum(Constraints.anoMin),
            JNum(Constraints.anoMax), JNum(Constraints.anoMax + 1)},
   resumo |-> OptionalText(Constraints.resumo),
   DOI |-> OptionalText(Constraints.DOI),
   status |-> {JStr(<<>>), JStr(PENDING), JStr(APPROVED), JStr(REJECTED),
               JStr(<<"b","o","g","u","s">>), JNum(1)},
   comunidades |->
     {Undef, JArr(<<>>), JStr(<<"x">>)}
       \cup {JArr(<<c>>) : c \in CommunityValues}
       \cup {JArr(<<JObj(GoodCommunity), c>>) : c \in CommunityValues}]

\* a plant and a community that break several rules at once, and the
\* references that hold several of them
BadPlant ==
  JObj([GoodPlant EXCEPT
          !.nomeCientifico = JArr(<<JStr(Long(Constraints.nomeCientifico + 1)), JNum(1),
                                    JStr(Long(Constraints.nomeCientifico + 1))>>),
          !.tipoUso = JArr(<<>>)])

BadCommunity ==
  JObj([GoodCommunity EXCEPT
          !.nome = JStr(<<" ">>),
          !.local = JStr(Long(Constraints.comLocal + 1)),
          !.atividadesEconomicas = JArr(<<JStr(Long(Constraints.comAtividade + 1)),
                                          JStr(Long(Constraints.comAtividade + 1))>>),
          !.plantas = JArr(<<BadPlant, JObj(GoodPlant), BadPlant>>)])

ManyOff ==
  {JObj([r EXCEPT !.comunidades = JArr(cs)]) :
     r \in {GoodReference,
            [GoodReference EXCEPT !.titulo = Undef, !.ano = JNum(0),
                                  !.status = JStr(<<"b","o","g","u","s">>)]},
     cs \in {<<BadCommunity, BadCommunity>>,
             <<BadCommunity, JObj(GoodCommunity), BadCommunity>>,
             <<JObj(GoodCommunity), BadCommunity>>}}

ReferenceFields == <<"titulo", "autores", "ano", "resumo", "DOI", "status", "comunidades">>

\* base with property f replaced by each of its values
OneOff(base, f) == {[base EXCEPT ![f] = v] : v \in ReferenceFieldValues[f]}

\* GoodReference with properties f and g replaced
TwoOff(f, g) == UNION {OneOff(r, g) : r \in OneOff(GoodReference, f)}

\* the values that are no record, the records that differ from
\* GoodReference in one property, and those that differ in two
ValidateInputs(fields) ==
  {JNull, Undef, JNum(5), JStr(<<"x">>), JArr(<<>>), JObj(GoodReference)}
    \cup ManyOff
    \cup {JObj(r) : r \in UNION {OneOff(GoodReference, fields[i]) : i \in 1..Len(fields)}}
    \cup {JObj(r) : r \in UNION {TwoOff(fields[ij[1]], fields[ij[2]]) :
                                   ij \in {p \in (1..Len(fields)) \X (1..Len(fields)) :
                                            p[1] < p[2]}}}

\* ------------------------------------------------------------------------
\* Request bodies handed to parseFormData
\* ------------------------------------------------------------------------
\* the keys of community ci, and of plant pi of community ci; the name
\* carries the index as the user typed it
IndexedCommunity(ci) ==
  <<CK(DecStr(ci), "nome", JStr(<<"c">> \o DecStr(ci))),
    CK(DecStr(ci), "municipio", JStr(<<"U","b">>)),
    CK(DecStr(ci), "estado", JStr(<<"S","P">>))>>

IndexedPlant(ci, pi) ==
  <<PK(DecStr(ci), DecStr(pi), "nomeCientifico", JStr(<<"P">> \o DecStr(pi))),
    PK(DecStr(ci), DecStr(pi), "nomeVernacular", JStr(<<"v">> \o DecStr(pi))),
    PK(DecStr(ci), DecStr(pi), "tipoUso", JStr(<<"m","e","d">>))>>

\* index pairs in the order the keys arrive: contiguous, reversed, with
\* gaps, and with a one-digit index next to a two-digit one
IndexPairs == {<<0, 1>>, <<1, 0>>, <<3, 7>>, <<2, 10>>, <<10, 2>>}

\* two communities, the first with two plants, the plants before or after
\* the fields of their community
IndexedBodies ==
  {[f |-> TopFields1,
    keys |-> IndexedPlant(c[1], p[1]) \o IndexedCommunity(c[1]) \o IndexedCommunity(c[2])
               \o IndexedPlant(c[2], p[1]) \o IndexedPlant(c[1], p[2])] :
     c \in IndexPairs, p \in IndexPairs}

\* the values a field of a JSON or form body can carry
FieldValues ==
  {Undef, JNull, JStr(<<" ","T"," ">>), JNum(5), JArr(<<JStr(<<"T">>)>>), JObj([a |-> JNum(1)])}

\* body 1 with one top-level field replaced
TypedTopBodies ==
  {[f |-> [TopFields1 EXCEPT ![g] = v], keys |-> CommunityKeys \o PlantKeys0] :
     g \in {"titulo", "autores", "ano"}, v \in FieldValues}
   \cup {[f |-> TopFields1 @@ (g :> v), keys |-> CommunityKeys \o PlantKeys0] :
     g \in {"resumo", "DOI"}, v \in FieldValues}

\* body 1 with one more bracket-indexed key
TypedFlatBodies ==
  {[f |-> TopFields1, keys |-> CommunityKeys \o PlantKeys0 \o <<CK(<<"0">>, g, v)>>] :
     g \in {"tipo", "local", "atividadesEconomicas"}, v \in FieldValues}
   \cup {[f |-> TopFields1, keys |-> CommunityKeys \o PlantKeys0 \o <<PK(<<"0">>, <<"0">>, "tipoUso", v)>>] :
     v \in FieldValues}

\* a JSON body whose comunidades array holds one entry
TypedNestedBodies ==
  {[f |-> TopFields1 @@ [comunidades |-> JArr(<<c>>)], keys |-> <<>>] :
     c \in {JNull, JNum(5), JStr(<<"x">>)}
           \cup {JObj([nome |-> v]) : v \in FieldValues}
           \cup {JObj([nome |-> JStr(<<"C","a">>), plantas |-> v]) : v \in FieldValues}
           \cup {JObj([nome |-> JStr(<<"C","a">>), plantas |-> JArr(<<p>>)]) :
                   p \in {JNull, JNum(5), JObj([nomeCientifico |-> JNum(1)]),
                          JObj([nomeCientifico |-> JArr(<<JStr(<<"F","v">>)>>),
                                nomeVernacular |-> JStr(<<"E","r","v","a"," ","D">>),
                                tipoUso |-> JStr(<<"m","e","d">>)])}}}

\* authors as the contract shows them, already in citation form
CitationAuthors ==
  <<<<"H","A","N","A","Z","A","K","I",","," ","N",".">>,
    <<"T","A","M","A","S","H","I","R","O",","," ","J","."," ","Y",".">>>>

\* body 1 with the authors in citation form: several autores fields (the
\* body parser hands them over as an array) or one field
CitationBodies ==
  {[f |-> [TopFields1 EXCEPT !.autores = v], keys |-> CommunityKeys \o PlantKeys0] :
     v \in {JArr(StrArray(CitationAuthors)), JArr(<<JStr(CitationAuthors[1])>>),
            JStr(CitationAuthors[1]), JStr(CitationAuthors[2])}}

ParseInputs ==
  {Bodies[b] : b \in BodyIds} \cup IndexedBodies \cup TypedTopBodies
    \cup TypedFlatBodies \cup TypedNestedBodies \cup CitationBodies

\* referenceData.comunidades.map(com => ({ ...com, plantas: filterEmptyPlants(com.plantas) }))
FilterCommunities(ref) ==
  [ref EXCEPT !.comunidades =
     [c \in 1..Len(ref.comunidades) |->
        [ref.comunidades[c] EXCEPT !.plantas = filterEmptyPlants(@)]]]

\* acquisition: parseFormData, validateReference; data = what insertReference gets
AcqValidated(p) ==
  IF p.threw THEN [threw |-> TRUE]
  ELSE [threw |-> FALSE, validation |-> validateReference(p.ref), data |-> p.ref]

AcqOutcome == [b \in BodyIds |-> AcqValidated(AcqParseFormData(Bodies[b]))]

\* curation: parseFormData, validateReference, then the empty plants are
\* filtered; data = what updateReferenceById gets
CurValidated(p) ==
  IF p.threw THEN [threw |-> TRUE]
  ELSE [threw |-> FALSE, validation |-> validateReference(p.ref),
        data |-> FilterCommunities(p.ref)]

CurOutcome == [b \in BodyIds |-> CurValidated(CurParseFormData(Bodies[b]))]

\* presentation: buildSearchQuery, once per filter set; threw = the TypeError
\* of .trim() on a filter value that is no string
SearchOutcome ==
  [fi \in 1..Len(FilterInputs) |->
     IF BuildThrows(FilterInputs[fi]) THEN [threw |-> TRUE]
     ELSE [threw |-> FALSE, query |-> buildSearchQuery(FilterInputs[fi])]]

\* ------------------------------------------------------------------------
\* State machine
\* ------------------------------------------------------------------------
\* last: op = the request; svc = the database service function it reached;
\* err = the message of the Error that function threw (<<>> = returned);
\* ret = what it returned; wrote = a store write was applied;
\* resp = what the handler sent ("escaped" = its promise rejected);
\* message = the error text rendered; errors = the validation errors rendered
NoRequest ==
  [op |-> "none", svc |-> "none", err |-> <<>>, ret |-> "none", wrote |-> FALSE,
   resp |-> "none", message |-> <<>>, errors |-> <<>>,
   items |-> <<>>, total |-> 0, page |-> 0, limit |-> 0, totalPages |-> 0]

\* constructor(): client = null, isConnected = false; no reconnect() runs
Disconnected ==
  [client |-> FALSE, isConnected |-> FALSE, pc |-> "idle", retries |-> 0,
   maxRetries |-> 0, attempts |-> 0, ret |-> "none"]

Init ==
  /\ docs = <<>>
  /\ nextId = 1
  /\ clock = 0
  /\ driver \in {"ModifyResult", "Document"}
  /\ running = TRUE
  /\ last = NoRequest
  /\ flight = <<>>
  /\ conn = Disconnected

\* the wall clock advances
Tick ==
  /\ running
  /\ clock < MaxTime
  /\ clock' = clock + 1
  /\ UNCHANGED <<docs, nextId, driver, running, last, flight, conn>>

\* POST /reference/submit (acquisition)
SubmitReference(b, up) ==
  /\ running
  /\ \E o \in {AcqOutcome[b]} :
       IF o.threw
         THEN /\ last' = [NoRequest EXCEPT
                            !.op = "submit", !.resp = "error",
                            !.message = <<"Erro ao salvar: ", FormTypeError>>]
              /\ UNCHANGED <<docs, nextId>>
       ELSE IF ~o.validation.isValid
         THEN /\ last' = [NoRequest EXCEPT !.op = "submit", !.resp = "invalid",
                                           !.errors = o.validation.errors]
              /\ UNCHANGED <<docs, nextId>>
       ELSE
         /\ nextId <= MaxRecords
         /\ \E r \in {insertReference(o.data, up)} :
              /\ docs' = r.docs
              /\ nextId' = IF r.err = <<>> THEN nextId + 1 ELSE nextId
              /\ last' = [NoRequest EXCEPT
                            !.op = "submit", !.svc = "insertReference",
                            !.err = r.err, !.ret = r.ret, !.wrote = (r.docs # docs),
                            !.resp = IF r.err = <<>> THEN "success" ELSE "error",
                            !.message = IF r.err = <<>> THEN <<>>
                                        ELSE <<"Erro ao salvar: ">> \o r.err]
  /\ UNCHANGED <<clock, driver, running, flight, conn>>

\* what the catch block renders once it has read the reference again
CatchOutcome(again, cause) ==
  IF again.err # <<>> THEN [resp |-> "escaped", message |-> again.err]
  ELSE [resp |-> "error", message |-> <<"Erro ao atualizar: ">> \o cause]

\* the catch block of handleReferenceUpdate: it reads the reference again,
\* outside any try, before rendering the error
UpdateCatch(id, cause, up) == CatchOutcome(findReferenceById(id, up), cause)

\* handleReferenceUpdate: PUT / POST /reference/update/:id (curation)
HandleReferenceUpdate(id, b, up) ==
  /\ running
  /\ \E o \in {CurOutcome[b]} :
       IF o.threw
         THEN \E c \in {UpdateCatch(id, <<FormTypeError>>, up)} :
                /\ last' = [NoRequest EXCEPT !.op = "update",
                                             !.resp = c.resp, !.message = c.message]
                /\ running' = (c.resp # "escaped")
                /\ docs' = docs
       ELSE IF ~o.validation.isValid
         THEN \E found \in {findReferenceById(id, up)} :
                IF found.err = <<>> /\ found.ret = "doc"
                  THEN /\ last' = [NoRequest EXCEPT
                                     !.op = "update", !.svc = "findReferenceById",
                                     !.ret = "doc", !.resp = "invalid",
                                     !.errors = o.validation.errors]
                       /\ UNCHANGED <<docs, running>>
                  ELSE \E c \in {UpdateCatch(id, IF found.err # <<>> THEN found.err
                                                  ELSE <<NullId>>, up)} :
                         /\ last' = [NoRequest EXCEPT
                                       !.op = "update", !.svc = "findReferenceById",
                                       !.err = found.err, !.ret = found.ret,
                                       !.resp = c.resp, !.message = c.message]
                         /\ running' = (c.resp # "escaped")
                         /\ docs' = docs
       ELSE
         \E r \in {updateReferenceById(id, o.data, up)} :
           /\ docs' = r.docs
           /\ IF r.err = <<>>
                THEN /\ last' = [NoRequest EXCEPT
                                   !.op = "update", !.svc = "updateReferenceById",
                                   !.ret = r.ret, !.wrote = (r.docs # docs),
                                   !.resp = "redirect"]
                     /\ UNCHANGED running
                ELSE \E c \in {UpdateCatch(id, r.err, up)} :
                       /\ last' = [NoRequest EXCEPT
                                     !.op = "update", !.svc = "updateReferenceById",
                                     !.err = r.err, !.wrote = (r.docs # docs),
                                     !.resp = c.resp, !.message = c.message]
                       /\ running' = (c.resp # "escaped")
  /\ UNCHANGED <<nextId, clock, driver, flight, conn>>

\* what a call of updateReferenceStatus leaves in last
StatusCall(base, r) ==
  [base EXCEPT !.svc = "updateReferenceStatus", !.err = r.err, !.ret = r.ret,
               !.wrote = (r.docs # docs)]

\* POST /reference/status/:id (curation)
PostStatus(id, status, up) ==
  /\ running
  /\ IF Falsy(status) \/ ~(IsString(status) /\ status.v \in StatusValues)
       THEN /\ last' = [NoRequest EXCEPT
                          !.op = "status", !.resp = "error",
                          !.message = <<"Erro ao atualizar status: ", InvalidStatus>>]
            /\ docs' = docs
       ELSE \E r \in {updateReferenceStatus(id, status, up)} :
              /\ docs' = r.docs
              /\ last' = [StatusCall([NoRequest EXCEPT !.op = "status"], r) EXCEPT
                            !.resp = IF r.err = <<>> THEN "redirect" ELSE "error",
                            !.message = IF r.err = <<>> THEN <<>>
                                        ELSE <<"Erro ao atualizar status: ">> \o r.err]
  /\ UNCHANGED <<nextId, clock, driver, running, flight, conn>>

\* a caller of the database service: updateReferenceStatus(id, status)
CallUpdateReferenceStatus(id, status, up) ==
  /\ running
  /\ \E r \in {updateReferenceStatus(id, status, up)} :
       /\ docs' = r.docs
       /\ last' = StatusCall([NoRequest EXCEPT !.op = "setStatus"], r)
  /\ UNCHANGED <<nextId, clock, driver, running, flight, conn>>

\* a caller of the database service: deleteReferenceById(id)
CallDeleteReferenceById(id, up) ==
  /\ running
  /\ \E r \in {deleteReferenceById(id, up)} :
       /\ docs' = r.docs
       /\ last' = [NoRequest EXCEPT !.op = "delete",
                                    !.svc = "deleteReferenceById", !.err = r.err,
                                    !.ret = r.ret, !.wrote = (r.docs # docs)]
  /\ UNCHANGED <<nextId, clock, driver, running, flight, conn>>

\* const { page = 1, limit = 50 } = req.query
OrDefault(x, dflt) == IF x.t = "undefined" THEN JNum(dflt) ELSE x

\* GET / (presentation)
GetSearch(fi, page, limit, up) ==
  /\ running
  /\ \E q \in {SearchOutcome[fi]} :
       IF q.threw
         THEN last' = [NoRequest EXCEPT
                         !.op = "search", !.resp = "error",
                         !.message = <<"Erro ao realizar busca: ", FormTypeError>>]
         ELSE \E r \in searchReferences(q.query,
                                         ParseIntOr(OrDefault(page, 1), 1),
                                         ParseIntOr(OrDefault(limit, 50), 50), up) :
                IF r.err # <<>>
                  THEN last' = [NoRequest EXCEPT
                                  !.op = "search", !.svc = "searchReferences",
                                  !.err = r.err, !.resp = "error",
                                  !.message = <<"Erro ao realizar busca: ">> \o r.err]
                  ELSE last' = [NoRequest EXCEPT
                                  !.op = "search", !.svc = "searchReferences",
                                  !.ret = "page", !.resp = "results",
                                  !.items = r.references, !.total = r.total,
                                  !.page = r.page, !.limit = r.limit,
                                  !.totalPages = r.totalPages]
  /\ UNCHANGED <<docs, nextId, clock, driver, running, flight, conn>>

\* Spec: the store life cycle and the public search, with the store
\* available: the valid bodies 1 and 2 (2 carries status approved) and
\* body 3 (an unknown status), every status value, every identifier
StoreBodies == {1, 2, 3}

ServiceStatuses == {JStr(PENDING), JStr(APPROVED), JStr(REJECTED), JStr(<<"b","o","g","u","s">>)}

Next ==
  \/ \E b \in StoreBodies : SubmitReference(b, TRUE)
  \/ \E id \in IdParams, b \in StoreBodies : HandleReferenceUpdate(id, b, TRUE)
  \/ \E id \in IdParams, s \in ServiceStatuses : CallUpdateReferenceStatus(id, s, TRUE)
  \/ \E id \in IdParams : CallDeleteReferenceById(id, TRUE)
  \/ \E fi \in 1..3 : GetSearch(fi, Undef, Undef, TRUE)

Spec == Init /\ [][Next]_vars

\* SpecTime: the same requests while the clock advances
TimeStatuses == {JStr(APPROVED)}

NextTime ==
  \/ Tick
  \/ SubmitReference(1, TRUE)
  \/ \E id \in IdParams : HandleReferenceUpdate(id, 1, TRUE)
  \/ \E id \in IdParams, s \in TimeStatuses : PostStatus(id, s, TRUE)

SpecTime == Init /\ [][NextTime]_vars

\* SpecFlows: the request handlers on every request body and filter set;
\* the store may be unavailable during a request (tried with a valid body,
\* body 1, and a body that fails validation, body 4)
FlowStatuses == {Undef, JStr(APPROVED), JStr(<<"b","o","g","u","s">>)}

NextFlows ==
  \/ \E b \in BodyIds : SubmitReference(b, TRUE)
  \/ SubmitReference(1, FALSE)
  \/ \E id \in IdParams, b \in BodyIds : HandleReferenceUpdate(id, b, TRUE)
  \/ \E id \in IdParams, b \in {1, 4} : HandleReferenceUpdate(id, b, FALSE)
  \/ \E id \in IdParams, s \in FlowStatuses : PostStatus(id, s, TRUE)
  \/ \E id \in IdParams : PostStatus(id, JStr(APPROVED), FALSE)
  \/ \E fi \in 1..Len(FilterInputs), page \in PageInputs, limit \in LimitInputs :
       GetSearch(fi, page, limit, TRUE)
  \/ GetSearch(1, Undef, Undef, FALSE)

SpecFlows == Init /\ [][NextFlows]_vars

\* SpecSearch: records are submitted and approved while time passes, and
\* the public search is asked for every page and limit of SearchPages and
\* SearchLimits
SearchPages ==
  {Undef, JStr(<<"1">>), JStr(<<"2">>), JStr(<<"3">>), JStr(<<"a","b","c">>),
   JStr(<<"0">>), JStr(<<"-","1">>)}

SearchLimits ==
  {Undef, JStr(<<"1">>), JStr(<<"2">>), JStr(<<"a","b","c">>), JStr(<<"0">>),
   JStr(<<"-","5">>), JStr(<<"1","0","0","0">>)}

NextSearch ==
  \/ Tick
  \/ SubmitReference(1, TRUE)
  \/ \E id \in IdParams : CallUpdateReferenceStatus(id, JStr(APPROVED), TRUE)
  \/ \E page \in SearchPages, limit \in SearchLimits : GetSearch(1, page, limit, TRUE)

SpecSearch == Init /\ [][NextSearch]_vars

\* ------------------------------------------------------------------------
\* Content updates in flight. handleReferenceUpdate runs without yielding
\* up to the first await of updateReferenceById (collection.findOne); the
\* $set document, updatedAt included, is built before that. It resumes when
\* findOne resolves and issues findOneAndUpdate, which the store applies to
\* the document in one step.
\* ------------------------------------------------------------------------
Requests == {"a", "b"}

UpdateBodies == {1, 2}

\* handleReferenceUpdate up to `await collection.findOne(...)`, for a body
\* that passes validation and the id of a stored record
BeginUpdate(r, id, b) ==
  /\ running
  /\ r \notin DOMAIN flight
  /\ id \in DOMAIN docs
  /\ ~CurOutcome[b].threw
  /\ CurOutcome[b].validation.isValid
  /\ flight' = flight @@ (r :> [id |-> id, body |-> b, pc |-> "findOne", order |-> 0,
                                set |-> updateReference(CurOutcome[b].data, clock)])
  /\ UNCHANGED <<docs, nextId, clock, driver, running, last, conn>>

\* findOne resolves; updateReferenceById issues findOneAndUpdate
FindOneResolves(r) ==
  /\ running
  /\ r \in DOMAIN flight
  /\ flight[r].pc = "findOne"
  /\ flight' = [flight EXCEPT ![r].pc = "findOneAndUpdate"]
  /\ UNCHANGED <<docs, nextId, clock, driver, running, last, conn>>

\* the store applies findOneAndUpdate; the handler reads the result and
\* answers
FindOneAndUpdateResolves(r) ==
  /\ running
  /\ r \in DOMAIN flight
  /\ flight[r].pc = "findOneAndUpdate"
  /\ flight' = [flight EXCEPT
                  ![r].pc = "done",
                  ![r].order = Cardinality({q \in DOMAIN flight : flight[q].pc = "done"}) + 1]
  /\ \E w \in {ReadResultValue("Falha ao atualizar referência: ", flight[r].id \in DOMAIN docs,
                                 AfterSet(flight[r].id, flight[r].set))} :
       /\ docs' = w.docs
       /\ IF w.err = <<>>
            THEN /\ last' = [NoRequest EXCEPT
                               !.op = "update", !.svc = "updateReferenceById",
                               !.ret = w.ret, !.wrote = (w.docs # docs),
                               !.resp = "redirect"]
                 /\ UNCHANGED running
            ELSE \E c \in {UpdateCatch(flight[r].id, w.err, TRUE)} :
                   /\ last' = [NoRequest EXCEPT
                                 !.op = "update", !.svc = "updateReferenceById",
                                 !.err = w.err, !.wrote = (w.docs # docs),
                                 !.resp = c.resp, !.message = c.message]
                   /\ running' = (c.resp # "escaped")
  /\ UNCHANGED <<nextId, clock, driver, conn>>

\* SpecUpdates: two content updates of stored records, interleaved at their
\* awaits, while time passes
NextUpdates ==
  \/ Tick
  \/ SubmitReference(1, TRUE)
  \/ \E r \in Requests, id \in IdParams, b \in UpdateBodies : BeginUpdate(r, id, b)
  \/ \E r \in Requests : FindOneResolves(r)
  \/ \E r \in Requests : FindOneAndUpdateResolves(r)

SpecUpdates == Init /\ [][NextUpdates]_vars

\* ------------------------------------------------------------------------
\* Database.reconnect (shared/config.js)
\* conn.pc is the position of the one reconnect() call on the singleton:
\* "connecting" = at `await this.connect()`, "sleep" = at the retry delay,
\* "returned" / "threw" = settled.  conn.attempts counts the calls of
\* connect(), conn.ret is what the settled promise carries.
\* ------------------------------------------------------------------------
\* the maxRetries arguments of the callers; Undef takes the default
RetryInputs == {Undef} \cup {JNum(n) : n \in -1..3}

\* reconnect(maxRetries = 5, ...)
MaxRetriesOf(arg) == IF arg = Undef THEN 5 ELSE arg.v

\* reconnect() up to its first await: retries = 0, the loop test, and the
\* synchronous part of connect() (a new MongoClient unless already connected)
CallReconnect(arg) ==
  /\ running
  /\ conn.pc \in {"idle", "returned", "threw"}
  /\ conn' =
       IF 0 < MaxRetriesOf(arg)
         THEN [conn EXCEPT !.pc = "connecting", !.retries = 0,
                           !.maxRetries = MaxRetriesOf(arg), !.attempts = 1,
                           !.ret = "none", !.client = TRUE]
         ELSE [conn EXCEPT !.pc = "returned", !.retries = 0,
                           !.maxRetries = MaxRetriesOf(arg), !.attempts = 0,
                           !.ret = "undefined"]
  /\ UNCHANGED <<docs, nextId, clock, driver, running, last, flight>>

\* `await this.connect()` settles: connect() returned the client it already
\* had, or the driver connected and answered the ping (ok), or it failed
ConnectResolves(ok) ==
  /\ running
  /\ conn.pc = "connecting"
  /\ conn.isConnected => ok
  /\ conn' =
       IF ok
         THEN [conn EXCEPT !.isConnected = TRUE, !.pc = "returned", !.ret = "client"]
       ELSE IF conn.retries + 1 >= conn.maxRetries
         THEN [conn EXCEPT !.retries = @ + 1, !.pc = "threw", !.ret = "error"]
       ELSE [conn EXCEPT !.retries = @ + 1, !.pc = "sleep"]
  /\ UNCHANGED <<docs, nextId, clock, driver, running, last, flight>>

\* the retry delay is over: the loop test, then connect() again
RetryDelayElapses ==
  /\ running
  /\ conn.pc = "sleep"
  /\ conn' =
       IF conn.retries < conn.maxRetries
         THEN [conn EXCEPT !.pc = "connecting", !.attempts = @ + 1, !.client = TRUE]
         ELSE [conn EXCEPT !.pc = "returned", !.ret = "undefined"]
  /\ UNCHANGED <<docs, nextId, clock, driver, running, last, flight>>

\* close(), between two reconnect() calls; the settled call is forgotten
Close ==
  /\ running
  /\ conn.pc \in {"idle", "returned", "threw"}
  /\ conn.client /\ conn.isConnected
  /\ conn' = [conn EXCEPT !.isConnected = FALSE, !.client = FALSE,
                        !.pc = "idle", !.ret = "none"]
  /\ UNCHANGED <<docs, nextId, clock, driver, running, last, flight>>

\* SpecReconnect: callers reconnect and close the singleton while time passes
NextReconnect ==
  \/ Tick
  \/ \E arg \in RetryInputs : CallReconnect(arg)
  \/ \E ok \in BOOLEAN : ConnectResolves(ok)
  \/ RetryDelayElapses
  \/ Close

SpecReconnect == Init /\ [][NextReconnect]_vars

\* the event loop runs every settled promise and every expired timer
SpecReconnectFair ==
  /\ SpecReconnect
  /\ WF_vars(\E ok \in BOOLEAN : ConnectResolves(ok))
  /\ WF_vars(RetryDelayElapses)

\* a caller of the validation service holds the value x it is about to pass
InitValue(inputs) ==
  /\ docs = <<>>
  /\ nextId = 1
  /\ clock = 0
  /\ driver \in {"ModifyResult", "Document"}
  /\ running = TRUE
  /\ last \in {[op |-> "value", input |-> x] : x \in inputs}
  /\ flight = <<>>
  /\ conn = Disconnected

\* the call validateReference(x); last keeps the argument and what the call did
CallValidateReference ==
  /\ running
  /\ last.op = "value"
  /\ last' = [op |-> "validate", input |-> last.input, out |-> ValidateCall(last.input)]
  /\ UNCHANGED <<docs, nextId, clock, driver, running, flight, conn>>

\* SpecValidate: validateReference on every value of ValidateInputs
InitValidate == InitValue(ValidateInputs(ReferenceFields))

NextValidate == CallValidateReference

SpecValidate == InitValidate /\ [][NextValidate]_vars

\* the call parseFormData(req.body) of the acquisition routes
CallAcqParseFormData ==
  /\ running
  /\ last.op = "value"
  /\ last' = [op |-> "acqParse", input |-> last.input, out |-> AcqParseFormData(last.input)]
  /\ UNCHANGED <<docs, nextId, clock, driver, running, flight, conn>>

\* the call parseFormData(req.body) of the curation routes
CallCurParseFormData ==
  /\ running
  /\ last.op = "value"
  /\ last' = [op |-> "curParse", input |-> last.input, out |-> CurParseFormData(last.input)]
  /\ UNCHANGED <<docs, nextId, clock, driver, running, flight, conn>>

\* SpecParse: both parseFormData functions on every body of ParseInputs
InitParse == InitValue(ParseInputs)

NextParse == CallAcqParseFormData \/ CallCurParseFormData

SpecParse == InitParse /\ [][NextParse]_vars

\* ------------------------------------------------------------------------
\* Filters and stored references handed to buildSearchQuery and to the
\* store's find
\* ------------------------------------------------------------------------
\* the text a user types into one filter: absent, blank, padded, in another
\* letter case, a part of a stored value, and pattern metacharacters
FilterValues ==
  {Undef,
   JStr(<<>>),
   JStr(<<" ">>),
   JStr(<<"S","ã","o"," ","P","a","u","l","o">>),
   JStr(<<" ","s","ã","o"," ","P","A","U","L","O"," ">>),
   JStr(<<"P","a","u","l","o">>),
   JStr(<<"S","ã","o">>),
   JStr(<<"e","r","v","a">>),
   JStr(<<"E","R","V","A">>),
   JStr(<<"v","u","l","g","a","r","e">>),
   JStr(<<".","*">>),
   JStr(<<"a",".","c">>),
   JStr(<<"a","+">>),
   JStr(<<"^","a">>),
   JStr(<<"a","$">>),
   JStr(<<"(","a","|","b",")">>),
   JStr(<<"[","a","b","]">>),
   JStr(<<"a","?">>),
   JStr(<<"{","1","}">>),
   JStr(<<"\\">>)}

\* one filter given, and some sets of two to four filters
FilterSets ==
  {[Filters(Undef, Undef, Undef, Undef) EXCEPT ![n] = v] :
     n \in {"comunidade", "planta", "estado", "municipio"}, v \in FilterValues}
  \cup {Filters(c, p, e, m) :
          c \in {Undef, JStr(<<"s","u","l">>)},
          p \in {JStr(<<" ">>), JStr(<<"e","r","v","a">>)},
          e \in {Undef, JStr(<<"S","ã","o"," ","P","a","u","l","o">>), JStr(<<"s","u","l"," ","d","e"," ","s","ã","o"," ","p","a","u","l","o">>)},
          m \in {Undef, JStr(<<"n","o","v","a"," ","u","b","a","t","u","b","a">>)}}
  \cup {Filters(Undef, Undef, JStr(<<"S","ã","o"," ","P","a","u","l","o">>), m) :
          m \in {JStr(<<"U","b","a","t","u","b","a">>), JStr(<<"u","b","a","t","u","b","a"," ","m","i","r","i","m">>)}}

\* a community with one plant, as the store keeps it
SearchCommunity(nome, estado, municipio, cientifico, vernacular) ==
  [nome |-> nome, estado |-> estado, municipio |-> municipio,
   plantas |-> <<[nomeCientifico |-> <<JStr(cientifico)>>,
                  nomeVernacular |-> <<JStr(vernacular)>>]>>]

SearchCommunities ==
  <<SearchCommunity(<<"C","a","i","c","a","r","a">>, <<"S","ã","o"," ","P","a","u","l","o">>, <<"U","b","a","t","u","b","a">>,
                    <<"F","o","e","n","i","c","u","l","u","m"," ","v","u","l","g","a","r","e">>, <<"e","r","v","a","-","d","o","c","e">>),
    SearchCommunity(<<"Q","u","i","l","o","m","b","o">>, <<"S","ã","o"," ","P","a","u","l","o"," ","d","o"," ","S","u","l">>, <<"U","b","a","t","u","b","a"," ","M","i","r","i","m">>,
                    <<"B","i","d","e","n","s"," ","p","i","l","o","s","a">>, <<"p","i","c","ã","o">>),
    SearchCommunity(<<"S","u","l">>, <<"S","u","l"," ","d","e"," ","S","ã","o"," ","P","a","u","l","o">>, <<"N","o","v","a"," ","U","b","a","t","u","b","a">>,
                    <<"E","r","v","a"," ","m","a","t","e">>, <<"m","a","t","e">>),
    SearchCommunity(<<".","*">>, <<"a",".","c">>, <<"a","+">>,
                    <<"(","a","|","b",")">>, <<"[","a","b","]">>),
    SearchCommunity(<<"a","b","c">>, <<"a","b","c">>, <<"a","a">>,
                    <<"a">>, <<"b">>),
    SearchCommunity(<<"^","a">>, <<"a","$">>, <<"a","?">>,
                    <<"{","1","}">>, <<"\\">>),
    SearchCommunity(<<"a">>, <<>>, <<"a","b">>,
                    <<"x",".","*","y">>, <<"a","1">>)>>

\* references of one community, approved or pending, and one of two
SearchDocs ==
  {[status |-> JStr(st), comunidades |-> <<SearchCommunities[i]>>] :
     st \in {APPROVED, PENDING}, i \in 1..Len(SearchCommunities)}
  \cup {[status |-> JStr(APPROVED),
         comunidades |-> <<SearchCommunities[2], SearchCommunities[1]>>]}

SearchInputs == {[filters |-> f, doc |-> d] : f \in FilterSets, d \in SearchDocs}

\* what the store answers for one document under the query built
QueryResult(query, doc) ==
  [threw |-> FALSE, query |-> query, matches |-> Matches(doc, query)]

QueryCall(filters, doc) ==
  IF BuildThrows(filters) THEN [threw |-> TRUE]
  ELSE QueryResult(buildSearchQuery(filters), doc)

\* the call buildSearchQuery(filters) and the find of the query it built
CallBuildSearchQuery ==
  /\ running
  /\ last.op = "value"
  /\ last' = [op |-> "query", input |-> last.input,
              out |-> QueryCall(last.input.filters, last.input.doc)]
  /\ UNCHANGED <<docs, nextId, clock, driver, running, flight, conn>>

\* SpecQuery: buildSearchQuery on every filter set, against every document
InitQuery == InitValue(SearchInputs)

NextQuery == CallBuildSearchQuery

SpecQuery == InitQuery /\ [][NextQuery]_vars



\* ------------------------------------------------------------------------
\* Properties
\* ------------------------------------------------------------------------
\* the statuses of the Status enumeration, as stored values
StoredStatuses == {JStr(v) : v \in StatusValues}

\* the record i is on the first page of the public search with no filter
\* (page 1, limit 50)
Visible(i) ==
  \E found \in findReferences(SearchOutcome[1].query, 50, 0) :
    \E k \in 1..Len(found) : found[k].id = i

\* C1: every record a public search returned had status approved when the
\* page fetch read it, whatever the filters; pending and rejected records
\* are never among the results.
C1_SearchReturnsOnlyApproved ==
  last.op = "search" =>
    \A k \in 1..Len(last.items) : last.items[k].doc.status = JStr(APPROVED)

\* a search returned records while the store also held a record that is
\* not approved
C1_Witness ==
  /\ last.op = "search"
  /\ Len(last.items) >= 1
  /\ \E i \in DOMAIN docs : docs[i].status \in {JStr(PENDING), JStr(REJECTED)}

\* C2: once updateReferenceStatus(id, s) has written status s to the stored
\* record id, the search with no filter returns that record if and only if
\* s = approved, whatever the status was before.
C2_StatusDecidesVisibility ==
  [][last'.op = "setStatus" =>
       \A id \in DOMAIN docs, s \in StatusValues :
         CallUpdateReferenceStatus(id, JStr(s), TRUE) => (Visible(id)' <=> s = APPROVED)]_vars

\* a status update returned its record; one record is approved and visible,
\* another is rejected and hidden
C2_Witness ==
  /\ last.svc = "updateReferenceStatus"
  /\ last.ret = "doc"
  /\ \E i, j \in DOMAIN docs :
       /\ docs[i].status = JStr(APPROVED) /\ Visible(i)
       /\ docs[j].status = JStr(REJECTED) /\ ~Visible(j)

\* C3: a content update through handleReferenceUpdate -> updateReferenceById
\* leaves the status of the reference as it was.
C3_UpdateKeepsStatus ==
  [][\A id \in DOMAIN docs, b \in StoreBodies :
       HandleReferenceUpdate(id, b, TRUE) => docs'[id].status = docs[id].status]_vars

\* C4: every record the acquisition submission inserts is stored with status
\* pending, whatever the form carries (a status field included).
C4_SubmittedIsPending ==
  [][\A i \in (DOMAIN docs') \ (DOMAIN docs) : docs'[i].status = JStr(PENDING)]_vars

\* the submission of body 2 (title T2, status=approved in the form) has just
\* been stored, as pending
C4_Witness ==
  /\ last.op = "submit"
  /\ last.resp = "success"
  /\ (nextId - 1) \in DOMAIN docs
  /\ docs[nextId - 1].titulo = <<"T", "2">>
  /\ docs[nextId - 1].status = JStr(PENDING)

\* C5: a status update changes, in the store, nothing but the status and
\* updatedAt of one record: no record is added or removed, every other record
\* and every other field stays as it was, and the record gains no field (the
\* previous status is kept nowhere).
C5_StatusUpdateFrame ==
  [][last'.op = "status" =>
       \A id \in IdParams, s \in TimeStatuses :
         PostStatus(id, s, TRUE) =>
           /\ DOMAIN docs' = DOMAIN docs
           /\ \A i \in DOMAIN docs :
                /\ DOMAIN docs'[i] = DOMAIN docs[i]
                /\ \A f \in (DOMAIN docs[i]) \ {"status", "updatedAt"} :
                     docs'[i][f] = docs[i][f]
                /\ i # id => docs'[i] = docs[i]]_vars

\* a status update has changed a record, at a later time than its creation,
\* while the store held another record
C5_Witness ==
  /\ last.svc = "updateReferenceStatus"
  /\ last.wrote
  /\ Cardinality(DOMAIN docs) = 2
  /\ \E i \in DOMAIN docs :
       /\ docs[i].status = JStr(APPROVED)
       /\ docs[i].updatedAt = clock
       /\ docs[i].updatedAt > docs[i].createdAt

C7_CommunitiesAndPlants ==
  \A i \in DOMAIN docs :
    /\ Len(docs[i].comunidades) >= 1
    /\ \A c \in 1..Len(docs[i].comunidades) : Len(docs[i].comunidades[c].plantas) >= 1

\* body 5 (title T5: a named plant and a plant block left empty) is stored,
\* with the named plant only
C7_Witness ==
  \E i \in DOMAIN docs :
    /\ docs[i].titulo = <<"T", "5">>
    /\ Len(docs[i].comunidades) = 1
    /\ Len(docs[i].comunidades[1].plantas) = 1

\* C8: updateReferenceById, updateReferenceStatus and deleteReferenceById,
\* called with a well-formed id that matches no record, fail with the message
\* "... não encontrada" and leave the store as it is; called with the id of a
\* stored record they return the updated record (or true).
C8_NotFoundContract ==
  [][\A id \in 1..MaxRecords :
       /\ \A s \in StatusValues :
            CallUpdateReferenceStatus(id, JStr(s), TRUE) =>
              IF id \in DOMAIN docs
                THEN last'.err = <<>> /\ last'.ret = "doc"
                ELSE last'.err = <<"Falha ao atualizar status: ", NotFound>> /\ docs' = docs
       /\ \A b \in {1, 2} :
            HandleReferenceUpdate(id, b, TRUE) =>
              IF id \in DOMAIN docs
                THEN last'.err = <<>> /\ last'.ret = "doc"
                ELSE last'.err = <<"Falha ao atualizar referência: ", NotFound>> /\ docs' = docs
       /\ CallDeleteReferenceById(id, TRUE) =>
              IF id \in DOMAIN docs
                THEN last'.err = <<>> /\ last'.ret = "true"
                ELSE last'.err = <<"Falha ao deletar referência: ", NotFound>> /\ docs' = docs]_vars

\* C9: updateReferenceStatus called with a status outside the enumeration
\* fails with "Status inválido" and writes nothing, and the status of every
\* stored record is one of pending, approved, rejected.
C9_InvalidStatusRejected ==
  [][/\ \A i \in DOMAIN docs' : docs'[i].status \in StoredStatuses
     /\ \A id \in IdParams, s \in ServiceStatuses \ StoredStatuses :
          CallUpdateReferenceStatus(id, s, TRUE) =>
            /\ last'.err = <<"Falha ao atualizar status: ", InvalidStatus>>
            /\ docs' = docs]_vars

\* the service function has refused a status while the store held a record
C9_Witness ==
  /\ last.op = "setStatus"
  /\ last.err = <<"Falha ao atualizar status: ", InvalidStatus>>
  /\ ~last.wrote
  /\ DOMAIN docs # {}

\* C10: no promise rejection escapes a request handler: every failure is
\* answered with a rendered error and the process keeps running.
C10_NoRejectionEscapes ==
  running /\ last.resp # "escaped"

\* C11: validateReference never raises: for every input value (a null
\* record, a null entry of comunidades or of plantas included) the call
\* returns { isValid, errors }
C11_ValidateNeverRaises ==
  last.op = "validate" => ~last.out.threw

\* C12: parseFormData never fails: for every request body, nested or flat,
\* whatever the type of each field value, it returns a record
C12_ParseNeverThrows ==
  last.op \in {"acqParse", "curParse"} => ~last.out.threw

\* the rules of a valid record, stated on the value handed to the validator
NonEmptyText(x, max) == IsString(x) /\ Trim(x.v) # <<>> /\ Len(x.v) <= max

Within(x, max) == x.t \in {"string", "array"} => Len(x.v) <= max

NamesOk(x, max) ==
  IsArray(x) /\ x.v # <<>> /\ \A i \in 1..Len(x.v) : NonEmptyText(x.v[i], max)

PlantOk(p) ==
  /\ NamesOk(Prop(p, "nomeCientifico"), 200)
  /\ NamesOk(Prop(p, "nomeVernacular"), 100)
  /\ NamesOk(Prop(p, "tipoUso"), 100)

CommunityOk(c) ==
  /\ NonEmptyText(Prop(c, "nome"), 200)
  /\ NonEmptyText(Prop(c, "municipio"), 100)
  /\ NonEmptyText(Prop(c, "estado"), 100)
  /\ Within(Prop(c, "local"), 500)
  /\ Within(Prop(c, "observacoes"), 2000)
  /\ (IsArray(Prop(c, "atividadesEconomicas")) =>
        \A a \in 1..Len(Prop(c, "atividadesEconomicas").v) :
          Within(Prop(c, "atividadesEconomicas").v[a], 100))
  /\ IsArray(Prop(c, "plantas")) /\ Prop(c, "plantas").v # <<>>
  /\ \A p \in 1..Len(Prop(c, "plantas").v) : PlantOk(Prop(c, "plantas").v[p])

RulesHold(x) ==
  /\ NonEmptyText(Prop(x, "titulo"), 500)
  /\ IsArray(Prop(x, "autores")) /\ Prop(x, "autores").v # <<>>
  /\ \A i \in 1..Len(Prop(x, "autores").v) :
       IsString(Prop(x, "autores").v[i]) /\ Trim(Prop(x, "autores").v[i].v) # <<>>
  /\ Prop(x, "ano").t = "number" /\ Prop(x, "ano").v \in 1500..2100
  /\ Within(Prop(x, "resumo"), 5000)
  /\ Within(Prop(x, "DOI"), 100)
  /\ (Falsy(Prop(x, "status")) \/ Prop(x, "status") \in StoredStatuses)
  /\ IsArray(Prop(x, "comunidades")) /\ Prop(x, "comunidades").v # <<>>
  /\ \A c \in 1..Len(Prop(x, "comunidades").v) : CommunityOk(Prop(x, "comunidades").v[c])

TopRuleMessages ==
  <<{"Título é obrigatório", "Título deve ter no máximo 500 caracteres"},
    {"Pelo menos um autor é obrigatório", "Todos os autores devem ter um nome válido"},
    {"Ano é obrigatório e deve ser um número inteiro", "Ano deve estar entre 1500 e 2100"},
    {"Resumo deve ter no máximo 5000 caracteres"},
    {"DOI deve ter no máximo 100 caracteres"},
    {"Status deve ser \"pending\", \"approved\" ou \"rejected\""},
    {"Pelo menos uma comunidade é obrigatória"}>>

RuleRank(e) ==
  IF e.c > 0 THEN Len(TopRuleMessages)
  ELSE CHOOSE r \in 1..Len(TopRuleMessages) : e.msg \in TopRuleMessages[r]

\* the top-level rules, in the order of TopRuleMessages
TopRuleHolds(x) ==
  <<NonEmptyText(Prop(x, "titulo"), 500),
    /\ IsArray(Prop(x, "autores")) /\ Prop(x, "autores").v # <<>>
    /\ \A i \in 1..Len(Prop(x, "autores").v) :
         IsString(Prop(x, "autores").v[i]) /\ Trim(Prop(x, "autores").v[i].v) # <<>>,
    Prop(x, "ano").t = "number" /\ Prop(x, "ano").v \in 1500..2100,
    Within(Prop(x, "resumo"), 5000),
    Within(Prop(x, "DOI"), 100),
    Falsy(Prop(x, "status")) \/ Prop(x, "status") \in StoredStatuses,
    IsArray(Prop(x, "comunidades")) /\ Prop(x, "comunidades").v # <<>>>>

\* errors lists the messages in rule order, then by community, then the
\* community's own messages (p = 0) before those of its plants in order
InRuleOrder(errors) ==
  \A i, j \in 1..Len(errors) :
    i < j =>
      /\ errors[i] # errors[j]
      /\ RuleRank(errors[i]) <= RuleRank(errors[j])
      /\ (errors[i].c > 0 /\ errors[j].c > 0) =>
           /\ errors[i].c <= errors[j].c
           /\ errors[i].c = errors[j].c => errors[i].p <= errors[j].p

\* every violated rule, community and plant has its message, and only those
AllReported(x, errors) ==
  /\ \A r \in 1..Len(TopRuleMessages) :
       ~TopRuleHolds(x)[r] <=>
         \E i \in 1..Len(errors) : errors[i].c = 0 /\ errors[i].msg \in TopRuleMessages[r]
  /\ \A r \in 1..Len(TopRuleMessages) :
       Cardinality({i \in 1..Len(errors) :
                     errors[i].c = 0 /\ errors[i].msg \in TopRuleMessages[r]}) <= 1
  /\ \A i \in 1..Len(errors) : errors[i].c \in 0..Len(ArrayOf(Prop(x, "comunidades")))
  /\ \A c \in 1..Len(ArrayOf(Prop(x, "comunidades"))) :
       LET com == ArrayOf(Prop(x, "comunidades"))[c] IN
       /\ ~CommunityOk(com) <=> \E i \in 1..Len(errors) : errors[i].c = c
       /\ \A i \in 1..Len(errors) :
            errors[i].c = c => errors[i].p \in 0..Len(ArrayOf(Prop(com, "plantas")))
       /\ \A p \in 1..Len(ArrayOf(Prop(com, "plantas"))) :
            ~PlantOk(ArrayOf(Prop(com, "plantas"))[p]) <=>
              \E i \in 1..Len(errors) : errors[i].c = c /\ errors[i].p = p

\* C14: the error list is the concatenation, in rule order, of the messages
\* of every violated rule, each community and plant message carrying its
\* 1-based index; no failure suppresses another message; an empty or missing
\* communities array yields one top-level message and no community message
C14_ErrorsCollectedInOrder ==
  (last.op = "validate" /\ ~last.out.threw) =>
    /\ InRuleOrder(last.out.errors)
    /\ AllReported(last.input, last.out.errors)

\* a record without a title whose first and third communities each have a
\* bad first and third plant: the title message comes first, the messages
\* of community 1 before those of community 3, plant 1 before plant 3
C14_Witness ==
  /\ last.op = "validate" /\ ~last.out.threw
  /\ Len(last.out.errors) >= 5
  /\ last.out.errors[1].msg = "Título é obrigatório"
  /\ \E i, j, k \in 2..Len(last.out.errors) :
       /\ i < j /\ j < k
       /\ last.out.errors[i].c = 1 /\ last.out.errors[i].p = 3
       /\ last.out.errors[j].c = 3 /\ last.out.errors[j].p = 0
       /\ last.out.errors[k].c = 3 /\ last.out.errors[k].p = 1

\* the elements of a set of integers, smallest first
RECURSIVE Ascending(_)
Ascending(S) ==
  IF S = {} THEN <<>>
  ELSE <<CHOOSE x \in S : \A y \in S : x <= y>>
         \o Ascending(S \ {CHOOSE x \in S : \A y \in S : x <= y})

\* the positions of the keys of community idx (plant = FALSE) or of plant
\* pIdx of community idx (plant = TRUE) that carry the given field
KeysOf(keys, plant, idx, pIdx, field) ==
  {i \in 1..Len(keys) :
     /\ keys[i].plant = plant /\ keys[i].field = field
     /\ ParseIntStr(keys[i].ci).n = idx
     /\ plant => ParseIntStr(keys[i].pi).n = pIdx}

\* the value the body carries for that field: the last assignment wins
ValueOf(keys, at) ==
  IF at = {} THEN Undef ELSE keys[CHOOSE i \in at : \A j \in at : j <= i].val

CommunityIndices(keys) == {ParseIntStr(keys[i].ci).n : i \in 1..Len(keys)}

PlantIndices(keys, idx) ==
  {ParseIntStr(keys[i].pi).n :
     i \in {j \in 1..Len(keys) : keys[j].plant /\ ParseIntStr(keys[j].ci).n = idx}}

\* community k of the output is the community with the k-th smallest
\* index, and its plants are those of that community, smallest index first
EmittedAscending(keys, coms, order) ==
  /\ Len(coms) = Len(order)
  /\ \A k \in 1..Len(coms) :
       /\ coms[k].nome = TrimOrEmpty(ValueOf(keys, KeysOf(keys, FALSE, order[k], 0, "nome")))
       /\ Len(coms[k].plantas) = Cardinality(PlantIndices(keys, order[k])) =>
            \A j \in 1..Len(coms[k].plantas) :
              coms[k].plantas[j].nomeCientifico =
                StrArray(parseCommaSeparated(
                  ValueOf(keys, KeysOf(keys, TRUE, order[k],
                                       Ascending(PlantIndices(keys, order[k]))[j],
                                       "nomeCientifico"))))

\* C15: for bracket-indexed input parseFormData emits the communities in
\* ascending order of their parsed integer index, one per distinct index,
\* and in each community the plants in ascending order of their parsed
\* integer index (as long as none is dropped for having no name)
C15_EmittedInIndexOrder ==
  (/\ last.op \in {"acqParse", "curParse"}
   /\ ~last.out.threw
   /\ last.op = "acqParse" => ~IsArray(Get(last.input.f, "comunidades"))) =>
    EmittedAscending(last.input.keys, last.out.ref.comunidades,
                     Ascending(CommunityIndices(last.input.keys)))

\* the same statement for bodies whose indices all have one digit
OneDigitIndicesEmittedAscending ==
  (/\ last.op \in {"acqParse", "curParse"}
   /\ ~last.out.threw
   /\ last.op = "acqParse" => ~IsArray(Get(last.input.f, "comunidades"))
   /\ \A i \in 1..Len(last.input.keys) :
        Len(last.input.keys[i].ci) = 1 /\ Len(last.input.keys[i].pi) <= 1) =>
    EmittedAscending(last.input.keys, last.out.ref.comunidades,
                     Ascending(CommunityIndices(last.input.keys)))

\* the plants of community idx that carry a scientific or a vernacular name
NamedPlants(keys, idx) ==
  {pIdx \in PlantIndices(keys, idx) :
     \/ parseCommaSeparated(ValueOf(keys, KeysOf(keys, TRUE, idx, pIdx, "nomeCientifico"))) # <<>>
     \/ parseCommaSeparated(ValueOf(keys, KeysOf(keys, TRUE, idx, pIdx, "nomeVernacular"))) # <<>>}

\* the response to a body whose nameless plants were dropped before
\* validation: no message points past the plants that remain, and a
\* community left without plants is refused with the plant-required message
NamelessDropped(keys, order, response) ==
  /\ \A i \in 1..Len(response.errors) :
       response.errors[i].p > 0 =>
         response.errors[i].p <=
           Cardinality(NamedPlants(keys, order[response.errors[i].c]))
  /\ \A k \in 1..Len(order) :
       NamedPlants(keys, order[k]) = {} =>
         /\ response.resp \notin {"success", "redirect"}
         /\ response.resp = "invalid" =>
              \E i \in 1..Len(response.errors) :
                response.errors[i] = Msg(k, 0, 0, "Pelo menos uma planta é obrigatória")

\* the request bodies that carry bracket-indexed keys and a nameless plant
NamelessBodyIds ==
  {b \in BodyIds :
     /\ ~IsArray(Get(Bodies[b].f, "comunidades"))
     /\ \E idx \in CommunityIndices(Bodies[b].keys) :
          NamedPlants(Bodies[b].keys, idx) # PlantIndices(Bodies[b].keys, idx)}

\* C16: in the submission flow and in the curation-update flow a plant
\* without a scientific and without a vernacular name is removed before
\* validation, so it yields no plant-level message, and a community left
\* without plants fails with the plant-required message of its 1-based index
C16_NamelessPlantsDroppedBeforeValidation ==
  [][\A b \in NamelessBodyIds :
       ((\E up \in BOOLEAN : SubmitReference(b, up))
          \/ (\E id \in IdParams, up \in BOOLEAN : HandleReferenceUpdate(id, b, up)))
       => NamelessDropped(Bodies[b].keys, Ascending(CommunityIndices(Bodies[b].keys)), last')]_vars

\* the same statement for the submission flow alone
SubmissionDropsNamelessPlants ==
  [][\A b \in NamelessBodyIds :
       (\E up \in BOOLEAN : SubmitReference(b, up))
       => NamelessDropped(Bodies[b].keys, Ascending(CommunityIndices(Bodies[b].keys)), last')]_vars

\* t occurs in v, ignoring letter case
ContainsText(v, t) ==
  \E i \in 0..(Len(v) - Len(t)) :
    ToLowerCase(SubSeq(v, i + 1, i + Len(t))) = ToLowerCase(t)

\* the filters that carry text once trimmed
Supplied(filters) ==
  {n \in DOMAIN filters : IsString(filters[n]) /\ Trim(filters[n].v) # <<>>}

\* the stored texts a filter looks at
StoredTexts(n, doc) ==
  CASE n = "comunidade" -> {doc.comunidades[c].nome : c \in 1..Len(doc.comunidades)}
    [] n = "estado" -> {doc.comunidades[c].estado : c \in 1..Len(doc.comunidades)}
    [] n = "municipio" -> {doc.comunidades[c].municipio : c \in 1..Len(doc.comunidades)}
    [] n = "planta" ->
         UNION {UNION {{doc.comunidades[c].plantas[p].nomeCientifico[k].v :
                          k \in 1..Len(doc.comunidades[c].plantas[p].nomeCientifico)}
                       \cup {doc.comunidades[c].plantas[p].nomeVernacular[k].v :
                          k \in 1..Len(doc.comunidades[c].plantas[p].nomeVernacular)} :
                         p \in 1..Len(doc.comunidades[c].plantas)} :
                c \in 1..Len(doc.comunidades)}

\* the filter text t selects the stored text v: equal for state and
\* municipality, contained for community and plant name
TextSelects(n, t, v) ==
  IF n \in {"estado", "municipio"} THEN ToLowerCase(v) = ToLowerCase(t)
  ELSE ContainsText(v, t)

FilterSelects(n, filters, doc) ==
  \E v \in StoredTexts(n, doc) : TextSelects(n, Trim(filters[n].v), v)

\* C17: the query asks for status approved and combines with AND exactly
\* one predicate per filter that carries text; absent, empty and blank
\* filters add none, so without filters every approved record is selected
C17_OnePredicatePerSuppliedFilter ==
  (last.op = "query" /\ ~last.out.threw) =>
    /\ last.out.query.status = JStr(APPROVED)
    /\ Len(last.out.query.and) = Cardinality(Supplied(last.input.filters))
    /\ last.out.matches <=>
         /\ last.input.doc.status = JStr(APPROVED)
         /\ \A n \in Supplied(last.input.filters) :
              FilterSelects(n, last.input.filters, last.input.doc)

\* an approved record that three supplied filters select and a fourth,
\* blank one does not restrict
C17_Witness ==
  /\ last.op = "query" /\ ~last.out.threw
  /\ Cardinality(Supplied(last.input.filters)) = 3
  /\ last.input.filters.planta = JStr(<<" ">>)
  /\ last.out.matches

\* C18: the state and municipality filters select a community only when
\* the whole stored field equals the trimmed filter text, ignoring case
C18_StateAndMunicipalityExact ==
  (last.op = "query" /\ ~last.out.threw) =>
    \A n \in Supplied(last.input.filters) \cap {"estado", "municipio"} :
      /\ last.out.matches =>
           \E v \in StoredTexts(n, last.input.doc) :
             ToLowerCase(v) = ToLowerCase(Trim(last.input.filters[n].v))
      /\ (Supplied(last.input.filters) = {n}
            /\ last.input.doc.status = JStr(APPROVED)
            /\ \E v \in StoredTexts(n, last.input.doc) :
                 ToLowerCase(v) = ToLowerCase(Trim(last.input.filters[n].v)))
           => last.out.matches

\* state 'São Paulo' does not select an approved record of 'São Paulo do Sul'
C18_Witness ==
  /\ last.op = "query" /\ ~last.out.threw
  /\ Supplied(last.input.filters) = {"estado"}
  /\ last.input.filters.estado = JStr(<<"S","ã","o"," ","P","a","u","l","o">>)
  /\ last.input.doc.status = JStr(APPROVED)
  /\ StoredTexts("estado", last.input.doc) = {<<"S","ã","o"," ","P","a","u","l","o"," ","d","o"," ","S","u","l">>}
  /\ ~last.out.matches

\* C19: the plant filter alone selects exactly the approved records with a
\* scientific or a vernacular name that contains the trimmed filter text,
\* ignoring case
C19_PlantNameSubstring ==
  (last.op = "query" /\ ~last.out.threw /\ Supplied(last.input.filters) = {"planta"}) =>
    (last.out.matches <=>
       /\ last.input.doc.status = JStr(APPROVED)
       /\ \E c \in 1..Len(last.input.doc.comunidades) :
            \E p \in 1..Len(last.input.doc.comunidades[c].plantas) :
              \/ \E k \in 1..Len(last.input.doc.comunidades[c].plantas[p].nomeCientifico) :
                   ContainsText(last.input.doc.comunidades[c].plantas[p].nomeCientifico[k].v,
                                Trim(last.input.filters.planta.v))
              \/ \E k \in 1..Len(last.input.doc.comunidades[c].plantas[p].nomeVernacular) :
                   ContainsText(last.input.doc.comunidades[c].plantas[p].nomeVernacular[k].v,
                                Trim(last.input.filters.planta.v)))

\* 'erva' selects Foeniculum vulgare through its vernacular name erva-doce
C19_Witness ==
  /\ last.op = "query" /\ ~last.out.threw
  /\ last.input.filters = Filters(Undef, JStr(<<"e","r","v","a">>), Undef, Undef)
  /\ StoredTexts("planta", last.input.doc) = {<<"F","o","e","n","i","c","u","l","u","m"," ","v","u","l","g","a","r","e">>, <<"e","r","v","a","-","d","o","c","e">>}
  /\ last.out.matches

\* C20: the pattern embedded for a filter matches exactly the stored texts
\* that contain (community, plant) or equal (state, municipality) the
\* trimmed filter text as literal characters, metacharacters included
C20_FilterTextIsLiteral ==
  (last.op = "query" /\ ~last.out.threw) =>
    \A n \in Supplied(last.input.filters) :
      Supplied(last.input.filters) = {n} =>
        \A v \in StoredTexts(n, last.input.doc) :
          RegexTest(last.out.query.and[1].regex, v)
            <=> TextSelects(n, Trim(last.input.filters[n].v), v)

\* the community filter '.*' does not select the approved record of
\* community 'abc'
C20_Witness ==
  /\ last.op = "query" /\ ~last.out.threw
  /\ last.input.filters = Filters(JStr(<<".", "*">>), Undef, Undef, Undef)
  /\ last.input.doc.status = JStr(APPROVED)
  /\ StoredTexts("comunidade", last.input.doc) = {<<"a", "b", "c">>}
  /\ ~last.out.matches

\* the same filter selects the record whose community is named '.*'
LiteralMetacharactersFound ==
  /\ last.op = "query" /\ ~last.out.threw
  /\ last.input.filters = Filters(JStr(<<".", "*">>), Undef, Undef, Undef)
  /\ StoredTexts("comunidade", last.input.doc) = {<<".", "*">>}
  /\ last.out.matches

\* C21: with the state and the municipality filter both supplied, a
\* reference is selected only if one and the same community of it has that
\* state and that municipality
C21_StateAndMunicipalityOfOneCommunity ==
  (/\ last.op = "query" /\ ~last.out.threw
   /\ {"estado", "municipio"} \subseteq Supplied(last.input.filters)
   /\ last.out.matches) =>
    \E c \in 1..Len(last.input.doc.comunidades) :
      /\ ToLowerCase(last.input.doc.comunidades[c].estado)
           = ToLowerCase(Trim(last.input.filters.estado.v))
      /\ ToLowerCase(last.input.doc.comunidades[c].municipio)
           = ToLowerCase(Trim(last.input.filters.municipio.v))

\* the same statement for the references of a single community
OneCommunityStateAndMunicipality ==
  (/\ last.op = "query" /\ ~last.out.threw
   /\ Len(last.input.doc.comunidades) = 1
   /\ {"estado", "municipio"} \subseteq Supplied(last.input.filters)
   /\ last.out.matches) =>
    /\ ToLowerCase(last.input.doc.comunidades[1].estado)
         = ToLowerCase(Trim(last.input.filters.estado.v))
    /\ ToLowerCase(last.input.doc.comunidades[1].municipio)
         = ToLowerCase(Trim(last.input.filters.municipio.v))

\* the records the query without filters selects
ApprovedIds == {i \in DOMAIN docs : docs[i].status = JStr(APPROVED)}

\* a page of a search with page >= 1 and limit >= 1: the count, the number
\* of pages, and the slice of the approved records, newest first
PageOfResults(r) ==
  /\ r.total = Cardinality(ApprovedIds)
  /\ r.totalPages * r.limit >= r.total
  /\ (r.totalPages - 1) * r.limit < r.total
  /\ \A k \in 1..Len(r.items) : r.items[k].id \in ApprovedIds
  /\ \A k, m \in 1..Len(r.items) :
       k < m => /\ r.items[k].id # r.items[m].id
                /\ docs[r.items[k].id].createdAt >= docs[r.items[m].id].createdAt
  /\ Len(r.items) =
       IF r.total <= (r.page - 1) * r.limit THEN 0
       ELSE IF r.total - (r.page - 1) * r.limit < r.limit
         THEN r.total - (r.page - 1) * r.limit
         ELSE r.limit
  /\ \A k \in 1..Len(r.items) :
       /\ Cardinality({i \in ApprovedIds :
                         docs[i].createdAt > docs[r.items[k].id].createdAt})
            <= (r.page - 1) * r.limit + k - 1
       /\ Cardinality({i \in ApprovedIds :
                         docs[i].createdAt >= docs[r.items[k].id].createdAt})
            >= (r.page - 1) * r.limit + k

\* every answer of a search with page >= 1 and limit >= 1 is such a page
EachPageIsASlice ==
  (last.op = "search" /\ last.resp = "results" /\ last.page >= 1 /\ last.limit >= 1)
    => PageOfResults(last)

\* two searches in a row, with no write between them, for different pages
\* of the same size
TwoPages(r, s) ==
  /\ r.op = "search" /\ r.resp = "results" /\ r.page >= 1 /\ r.limit >= 1
  /\ s.op = "search" /\ s.resp = "results" /\ s.page >= 1 /\ s.limit = r.limit
  /\ s.page # r.page

NoRecordOnTwoPages(r, s) ==
  \A k \in 1..Len(r.items) : \A m \in 1..Len(s.items) : r.items[k].id # s.items[m].id

\* C22: with no concurrent write, searchReferences with page >= 1 and
\* limit >= 1 returns the count of the matching records, ceil(total / limit)
\* pages and the page's slice of the matching records, newest first; the
\* pages hold every matching record exactly once, so no record is on two
\* pages, and a page beyond the last is empty
C22_PagesPartitionTheMatches ==
  /\ []EachPageIsASlice
  /\ [][(docs' = docs /\ TwoPages(last, last')) => NoRecordOnTwoPages(last, last')]_vars

\* the same statement for stores whose records differ in creation time
PagesPartitionDistinctTimes ==
  [][(/\ docs' = docs
      /\ \A i, j \in DOMAIN docs : i # j => docs[i].createdAt # docs[j].createdAt
      /\ TwoPages(last, last')) => NoRecordOnTwoPages(last, last')]_vars

\* the answer to a search is the first page, reported as page 1
AnsweredAsFirstPage(r) ==
  /\ r.resp = "results"
  /\ r.page = 1
  /\ r.limit >= 1 => PageOfResults(r)

\* C23: a search whose page parameter is no positive integer ('abc', 0 or
\* -1) is handled as page 1 without an error: it returns the first page and
\* reports page = 1
C23_BadPageIsPageOne ==
  [][\A page \in {JStr(<<"a","b","c">>), JStr(<<"0">>), JStr(<<"-","1">>)} :
       \A limit \in SearchLimits :
         GetSearch(1, page, limit, TRUE) => AnsweredAsFirstPage(last')]_vars

\* the same statement for the page parameters 'abc' and 0
UnparsedPageIsPageOne ==
  [][\A page \in {JStr(<<"a","b","c">>), JStr(<<"0">>)} :
       \A limit \in SearchLimits :
         GetSearch(1, page, limit, TRUE) => AnsweredAsFirstPage(last')]_vars

\* C24: whatever the limit parameter, the public search returns at most
\* 100 records in one response and never more records than the limit it
\* reports; a limit above 100 is capped at 100
C24_LimitIsCapped ==
  (last.op = "search" /\ last.resp = "results") =>
    /\ Len(last.items) <= 100
    /\ Len(last.items) <= last.limit
    /\ last.limit <= 100

\* the part of the statement that holds: a search that reports a limit
\* from 1 to 100 returns no more records than that
PositiveLimitIsKept ==
  (last.op = "search" /\ last.resp = "results" /\ last.limit \in 1..100) =>
    Len(last.items) <= last.limit

\* the fields of a record a curator edits
Editable(d) == <<d.titulo, d.autores, d.ano, d.resumo, d.DOI, d.comunidades>>

\* r is the request whose write to its record was applied last
WroteLast(r) ==
  /\ r \in DOMAIN flight
  /\ flight[r].pc = "done"
  /\ \A q \in DOMAIN flight :
       (flight[q].pc = "done" /\ flight[q].id = flight[r].id)
         => flight[q].order <= flight[r].order

\* C25: when two content updates of one record are in flight together,
\* whatever the interleaving, the editable fields of the record are the
\* whole record of the update whose write was applied last, never a mixture
C25_LastWriteWinsWhole ==
  \A r \in Requests :
    WroteLast(r) => Editable(docs[flight[r].id]) = Editable(flight[r].set)

\* both updates of one record were in flight with different bodies; the
\* one that was applied second holds the record
C25_Witness ==
  /\ DOMAIN flight = Requests
  /\ flight["a"].id = flight["b"].id
  /\ flight["a"].body # flight["b"].body
  /\ flight["a"].pc = "done" /\ flight["b"].pc = "done"
  /\ flight["a"].order = 2
  /\ flight["a"].set.updatedAt < flight["b"].set.updatedAt
  /\ Editable(docs[flight["a"].id]) = Editable(flight["a"].set)
  /\ Editable(docs[flight["a"].id]) # Editable(flight["b"].set)

\* the authors a body carries, one per autores field
AuthorsGiven(x) == IF IsArray(x) THEN x.v ELSE <<x>>

\* C26: authors submitted in citation form, as several autores fields or
\* as one, are stored as exactly those authors, in the same order and
\* number: none is changed and none is split in two
C26_CitationAuthorsKept ==
  (/\ last.op = "acqParse"
   /\ \A i \in 1..Len(AuthorsGiven(Get(last.input.f, "autores"))) :
        /\ IsString(AuthorsGiven(Get(last.input.f, "autores"))[i])
        /\ \E k \in 1..Len(CitationAuthors) :
             AuthorsGiven(Get(last.input.f, "autores"))[i].v = CitationAuthors[k]) =>
    /\ ~last.out.threw
    /\ last.out.ref.autores = AuthorsGiven(Get(last.input.f, "autores"))

\* the record holds what normalization makes of the text typed into the
\* plant filter (as a vernacular name) or into the state filter
EnteredAs(doc, filters) ==
  /\ "planta" \in Supplied(filters) =>
       \E c \in 1..Len(doc.comunidades) : \E p \in 1..Len(doc.comunidades[c].plantas) :
         \E k \in 1..Len(doc.comunidades[c].plantas[p].nomeVernacular) :
           doc.comunidades[c].plantas[p].nomeVernacular[k].v
             = formatVernacularName(filters.planta)
  /\ "estado" \in Supplied(filters) =>
       \E c \in 1..Len(doc.comunidades) :
         doc.comunidades[c].estado = formatStateName(filters.estado)

\* the searches by plant or by state alone
EntryFilters(S) ==
  {fi \in 1..Len(FilterInputs) :
     /\ ~BuildThrows(FilterInputs[fi])
     /\ Supplied(FilterInputs[fi]) \in S}

\* a search by fi returns every approved record entered with that text
FindsWhatWasEntered(fi, items) ==
  \A i \in DOMAIN docs :
    (docs[i].status = JStr(APPROVED) /\ EnteredAs(docs[i], FilterInputs[fi]))
      => \E k \in 1..Len(items) : items[k].id = i

\* C27: an approved reference is returned by the public search whose plant
\* filter is one of its vernacular names as the submitter typed it, or
\* whose state filter is its state as typed: normalization at entry never
\* makes a record unreachable by the value entered
C27_FoundByValueEntered ==
  [][\A fi \in EntryFilters({{"planta"}, {"estado"}}) :
       GetSearch(fi, Undef, Undef, TRUE) => FindsWhatWasEntered(fi, last'.items)]_vars

\* the same statement for the texts normalization leaves as they are: a
\* vernacular name of one lower-case word, a state name written in full
FoundByUnchangedValue ==
  [][\A fi \in {f \in EntryFilters({{"planta"}, {"estado"}}) :
                  /\ formatVernacularName(FilterInputs[f].planta) = TextOf(FilterInputs[f].planta)
                  /\ formatStateName(FilterInputs[f].estado) = TextOf(FilterInputs[f].estado)} :
       GetSearch(fi, Undef, Undef, TRUE) => FindsWhatWasEntered(fi, last'.items)]_vars

\* the bodies whose mapped record validateReference rejects
RejectedBy(outcome) ==
  {b \in BodyIds : ~outcome[b].threw /\ ~outcome[b].validation.isValid}

\* C28: when validateReference rejects the mapped record, the submission
\* handler inserts nothing and the curation-update handler writes nothing:
\* the stored records are as before, and the response carries the
\* validation errors
C28_RejectedRecordIsNotWritten ==
  [][/\ \A b \in RejectedBy(AcqOutcome) : \A up \in BOOLEAN :
          SubmitReference(b, up) =>
            /\ docs' = docs
            /\ last'.resp = "invalid"
            /\ last'.errors = AcqOutcome[b].validation.errors
     /\ \A b \in RejectedBy(CurOutcome) : \A up \in BOOLEAN : \A id \in IdParams :
          HandleReferenceUpdate(id, b, up) =>
            /\ docs' = docs
            /\ last'.resp = "invalid"
            /\ last'.errors = CurOutcome[b].validation.errors]_vars

\* the part of the statement that holds for every request: nothing is
\* written, and the errors are rendered when the record can be read back
RejectedRecordLeavesStore ==
  [][/\ \A b \in RejectedBy(AcqOutcome) : \A up \in BOOLEAN :
          SubmitReference(b, up) =>
            /\ docs' = docs
            /\ last'.resp = "invalid"
            /\ last'.errors = AcqOutcome[b].validation.errors
     /\ \A b \in RejectedBy(CurOutcome) : \A up \in BOOLEAN : \A id \in IdParams :
          HandleReferenceUpdate(id, b, up) =>
            /\ docs' = docs
            /\ (up /\ id \in DOMAIN docs) =>
                 /\ last'.resp = "invalid"
                 /\ last'.errors = CurOutcome[b].validation.errors]_vars


\* title, authors, year, abstract, DOI, communities and plants of a parsed
\* reference
ParsedContent(ref) ==
  [titulo |-> ref.titulo, autores |-> ref.autores, ano |-> ref.ano,
   resumo |-> ref.resumo, DOI |-> ref.DOI, comunidades |-> ref.comunidades]

\* the acquisition flow parses the body and its validation accepts the result
AcceptedByAcquisition(p) == ~p.threw /\ validateReference(p.ref).isValid

\* C29: for every body the acquisition flow accepts, with bracket-indexed
\* keys or with an already-nested communities array, parseFormData of the
\* curation flow produces the same title, authors, year, abstract, DOI,
\* communities and plants as parseFormData of the acquisition flow
C29_CurationParsesAsAcquisition ==
  (last.op = "curParse" /\ AcceptedByAcquisition(AcqParseFormData(last.input))) =>
    /\ ~last.out.threw
    /\ ParsedContent(last.out.ref) = ParsedContent(AcqParseFormData(last.input).ref)

\* what the two parsers do share: on a body with bracket-indexed keys only,
\* everything but the authors, and the communities too when no plant is
\* dropped for want of a name
FlatBodiesParsedAlike ==
  (last.op = "curParse" /\ ~IsArray(Get(last.input.f, "comunidades"))) =>
    /\ last.out.threw = AcqParseFormData(last.input).threw
    /\ ~last.out.threw =>
         /\ [ParsedContent(last.out.ref) EXCEPT !.autores = <<>>, !.comunidades = <<>>]
              = [ParsedContent(AcqParseFormData(last.input).ref)
                   EXCEPT !.autores = <<>>, !.comunidades = <<>>]
         /\ FilterCommunities(last.out.ref).comunidades
              = AcqParseFormData(last.input).ref.comunidades


\* a reconnect() call has settled
Settled == conn.pc \in {"returned", "threw"}

\* C30: reconnect(maxRetries) makes at most maxRetries connection attempts;
\* when it returns, it returns the connected client with isConnected true;
\* when every attempt failed it throws the connection error; it never
\* returns normally without a connected client
C30_ReconnectReturnsConnectedClient ==
  /\ conn.pc # "idle" /\ conn.maxRetries >= 0 => conn.attempts <= conn.maxRetries
  /\ conn.pc = "returned" =>
       conn.ret = "client" /\ conn.client /\ conn.isConnected
  /\ conn.pc = "threw" =>
       conn.ret = "error" /\ conn.attempts = conn.maxRetries /\ ~conn.isConnected

\* with maxRetries of at least 1 the call behaves as stated
ReconnectWithRetries ==
  conn.maxRetries >= 1 => C30_ReconnectReturnsConnectedClient

\* and every call settles
ReconnectSettles == (conn.pc \in {"connecting", "sleep"}) ~> Settled

====
